---- MODULE Spec2Model ----
(***************************************************************************)
(* Harmony Scheduler v2.0: the scoring engine (HarmonyEngine and its       *)
(* PredictiveStressModel), with the date and math utilities it consumes.   *)
(*                                                                         *)
(* Timestamps are local-time ISO strings at minute resolution; a timestamp *)
(* is modelled by the number of minutes since 00:00 of day 0, so that the  *)
(* date prefix `start.slice(0, 10)` is DayKey(t), `getHours()` is          *)
(* HourOf(t), and `getTime()` differences divided by CONFIG.TIME.MINUTE    *)
(* are integer differences.  Fractions (hours, ratios, normalised weights) *)
(* are exact rationals [num, den] with den > 0; IEEE rounding error of the *)
(* JavaScript doubles is not modelled.                                     *)
(***************************************************************************)
EXTENDS Integers, Sequences, FiniteSets, TLC

(***************************************************************************)
(* Bounds of the model                                                     *)
(***************************************************************************)
MaxLen == 2          \* longest hand-built event list
MaxDays == 3         \* most days in a generated schedule

(***************************************************************************)
(* CONFIG (Config.js 9-129), the fields the engine reads                    *)
(***************************************************************************)
CONFIG ==
  [ HARMONY_WEIGHTS |->
      [ DAILY_LOAD |-> 25, BREAK_COMPLIANCE |-> 20, EVENING_WORK |-> 15,
        WEEKLY_BALANCE |-> 20, RECOVERY_ADEQUACY |-> 15, PREDICTIVE_STRESS |-> 5 ],
    THRESHOLDS |->
      [ SCORE |->
          [ EXCELLENT |-> [min |-> 85, max |-> 100],
            GOOD      |-> [min |-> 70, max |-> 84],
            MODERATE  |-> [min |-> 50, max |-> 69],
            WARNING   |-> [min |-> 30, max |-> 49],
            CRITICAL  |-> [min |-> 0,  max |-> 29] ],
        DAILY  |-> [ OPTIMAL |-> 4, GOOD |-> 6, WARNING |-> 8, DANGER |-> 10, CRITICAL |-> 12 ],
        WEEKLY |-> [ OPTIMAL_HOURS |-> 25, GOOD_HOURS |-> 32, WARNING_HOURS |-> 40,
                     DANGER_HOURS |-> 50, CRITICAL_HOURS |-> 60 ],
        EVENING_HOUR |-> 18,
        NIGHT_HOUR |-> 21,
        RECOVERY |-> [ MIN_HOURS_BETWEEN_DAYS |-> 12,
                       IDEAL_BREAK_RATIO |-> [num |-> 1, den |-> 4],
                       MAX_CONSECUTIVE_INTENSIVE |-> 3 ] ],
    DEFAULT_PROFESSIONAL |->
      [ breakDuration |-> 20, maxDailyAppointments |-> 8, maxWeeklyHours |-> 40 ],
    EVENT_TYPES |-> [ APPOINTMENT |-> "appointment", BREAK |-> "break", BLOCKED |-> "blocked",
                      AVAILABILITY |-> "availability", RECOVERY |-> "recovery" ],
    STATUS |-> [ CONFIRMED |-> "confirmed", PENDING |-> "pending", CANCELLED |-> "cancelled",
                 COMPLETED |-> "completed", NO_SHOW |-> "no_show" ] ]

(***************************************************************************)
(* Values: a call either returns a value or throws                         *)
(***************************************************************************)
Returned(v) == [threw |-> FALSE, val |-> v]
TypeError == [threw |-> TRUE, val |-> "TypeError"]

\* The methods the class body of HarmonyEngine defines.  `this.m(...)` for any
\* other name m evaluates `undefined(...)` and raises a TypeError.
HarmonyEngineMethods ==
  { "constructor", "computeWeeklyScore", "computeDailyScore", "predictOverloadRisk",
    "detectCriticalDays", "suggestOptimalBlocks", "calculateRecoveryRecommendation",
    "_computeDailyLoadScore", "_computeBreakComplianceScore", "_computeEveningWorkScore",
    "_computeWeeklyBalanceScore", "_computeRecoveryAdequacyScore",
    "_computePredictiveStressScore", "_applyIntelligentWeighting", "_filterAppointments",
    "_filterDayAppointments", "_calculateTotalWorkMinutes", "_isEveningEvent",
    "_isNightEvent", "_getFallbackScore" }

IsMethod(name) == name \in HarmonyEngineMethods

(***************************************************************************)
(* Exact arithmetic                                                        *)
(***************************************************************************)
Rat(n, d) == [num |-> n, den |-> d]

\* Math.round: the nearest integer, halves towards +Infinity
MathRound(r) == (2 * r.num + r.den) \div (2 * r.den)

MathMax(a, b) == IF a >= b THEN a ELSE b
MathMin(a, b) == IF a <= b THEN a ELSE b

RECURSIVE SumSeq(_)
SumSeq(s) == IF s = <<>> THEN 0 ELSE Head(s) + SumSeq(Tail(s))

RECURSIVE MaxSeq(_)
MaxSeq(s) == IF Len(s) = 1 THEN s[1] ELSE MathMax(Head(s), MaxSeq(Tail(s)))

(***************************************************************************)
(* MathUtils                                                               *)
(***************************************************************************)
clamp(value, min, max) == MathMin(MathMax(value, min), max)

average(numbers) ==
  IF Len(numbers) = 0 THEN Rat(0, 1) ELSE Rat(SumSeq(numbers), Len(numbers))

\* standardDeviation is Math.sqrt of this variance; the engine only compares
\* it with 3, which is the comparison of the variance with 9.
variance(numbers) ==
  IF Len(numbers) < 2 THEN Rat(0, 1)
  ELSE LET k == Len(numbers)
           t == SumSeq(numbers)
       IN Rat(SumSeq([i \in 1..k |-> (k * numbers[i] - t) * (k * numbers[i] - t)]), k * k * k)

standardDeviationExceeds(numbers, bound) ==
  LET v == variance(numbers) IN v.num > bound * bound * v.den

(***************************************************************************)
(* DateUtils                                                               *)
(***************************************************************************)
MinutesPerDay == 1440

DayKey(t) == t \div MinutesPerDay            \* start.slice(0, 10)
HourOf(t) == (t % MinutesPerDay) \div 60     \* new Date(start).getHours()

minutesBetween(startISO, endISO) == endISO - startISO

\* A record without the field reads `undefined` for it: new Date(undefined) is
\* an invalid date, whose getTime() and getHours() are NaN.
Missing(ev, field) == field \notin DOMAIN ev

HasBothTimes(ev) == ~Missing(ev, "start") /\ ~Missing(ev, "end")

\* `ev.start.slice(0, 10)` raises a TypeError when ev.start is undefined
groupByDayThrows(events) == \E i \in 1..Len(events) : Missing(events[i], "start")

\* groupByDay: the buckets in order of first appearance (insertion order of
\* the object's keys), each bucket in list order.
RECURSIVE groupByDayFrom(_, _)
groupByDayFrom(events, acc) ==
  IF events = <<>> THEN acc
  ELSE LET ev == Head(events)
           day == DayKey(ev.start)
           at == {i \in 1..Len(acc) : acc[i].day = day}
       IN IF at = {}
          THEN groupByDayFrom(Tail(events), Append(acc, [day |-> day, events |-> <<ev>>]))
          ELSE groupByDayFrom(Tail(events),
                 [i \in 1..Len(acc) |->
                    IF i \in at THEN [acc[i] EXCEPT !.events = Append(@, ev)] ELSE acc[i]])

groupByDay(events) == groupByDayFrom(events, <<>>)

\* sortByStartTime: a sorted copy; Array.prototype.sort is stable.
RECURSIVE InsertByStart(_, _)
InsertByStart(sorted, ev) ==
  IF sorted = <<>> THEN <<ev>>
  ELSE IF Head(sorted).start <= ev.start
       THEN <<Head(sorted)>> \o InsertByStart(Tail(sorted), ev)
       ELSE <<ev>> \o sorted

RECURSIVE sortByStartTime(_)
sortByStartTime(events) ==
  IF events = <<>> THEN <<>>
  ELSE InsertByStart(sortByStartTime(SubSeq(events, 1, Len(events) - 1)), events[Len(events)])

(***************************************************************************)
(* HarmonyEngine: private helpers                                          *)
(***************************************************************************)
\* Faulty variant of the filter: the status is not looked at
IsScoredAppointmentAnyStatus(ev) == ev.type = CONFIG.EVENT_TYPES.APPOINTMENT

IsScoredAppointment(ev) ==
  ev.type = CONFIG.EVENT_TYPES.APPOINTMENT /\ ev.status # CONFIG.STATUS.CANCELLED

_filterAppointments(events) == SelectSeq(events, IsScoredAppointment)

_filterDayAppointments(events, dateISO) ==
  LET OnDay(ev) == DayKey(ev.start) = dateISO
  IN SelectSeq(_filterAppointments(events), OnDay)

\* isNaN(duration) ? 0 : duration
_calculateTotalWorkMinutes(events) ==
  SumSeq([i \in 1..Len(events) |->
            IF Missing(events[i], "start") \/ Missing(events[i], "end") THEN 0
            ELSE minutesBetween(events[i].start, events[i].end)])

\* NaN >= EVENING_HOUR is false
_isEveningEvent(event) ==
  ~Missing(event, "start") /\ HourOf(event.start) >= CONFIG.THRESHOLDS.EVENING_HOUR

\* Faulty variant of the night test: the night hour itself is not night
_isNightEventAfterHour(event) ==
  ~Missing(event, "start") /\ HourOf(event.start) > CONFIG.THRESHOLDS.NIGHT_HOUR

_isNightEvent(event) ==
  ~Missing(event, "start") /\ HourOf(event.start) >= CONFIG.THRESHOLDS.NIGHT_HOUR

\* The gaps the per-day loops visit, bucket by bucket, each bucket sorted by
\* start: minutesBetween(sorted[i-1].end, sorted[i].start) for i = 1..length-1.
DayGaps(dayEvents) ==
  LET sorted == sortByStartTime(dayEvents)
  IN [i \in 1..(Len(sorted) - 1) |-> minutesBetween(sorted[i].end, sorted[i + 1].start)]

RECURSIVE GapsOfBuckets(_)
GapsOfBuckets(byDay) ==
  IF byDay = <<>> THEN <<>>
  ELSE DayGaps(Head(byDay).events) \o GapsOfBuckets(Tail(byDay))

(***************************************************************************)
(* HarmonyEngine: the dimension scorers                                    *)
(***************************************************************************)
\* The penalty on the mean (lines 1168-1172)
AveragePenalty(avgCount) ==
  LET D == CONFIG.THRESHOLDS.DAILY
  IN IF avgCount.num > D.CRITICAL * avgCount.den THEN 45
     ELSE IF avgCount.num > D.DANGER * avgCount.den THEN 35
     ELSE IF avgCount.num > D.WARNING * avgCount.den THEN 20
     ELSE IF avgCount.num > D.GOOD * avgCount.den THEN 10
     ELSE 0

\* Faulty variant of the peak penalty: the thresholds are inclusive
PeakPenaltyInclusive(maxCount) ==
  LET D == CONFIG.THRESHOLDS.DAILY
  IN IF maxCount >= D.CRITICAL THEN 25
     ELSE IF maxCount >= D.DANGER THEN 15
     ELSE 0

\* The penalty on the peak (lines 1174-1176)
PeakPenalty(maxCount) ==
  LET D == CONFIG.THRESHOLDS.DAILY
  IN IF maxCount > D.CRITICAL THEN 25
     ELSE IF maxCount > D.DANGER THEN 15
     ELSE 0

_computeDailyLoadScore(appointments) ==
  IF Len(appointments) = 0 THEN Returned(100)
  ELSE IF groupByDayThrows(appointments) THEN TypeError
  ELSE LET byDay == groupByDay(appointments)
           counts == [i \in 1..Len(byDay) |-> Len(byDay[i].events)]
           avgCount == average(counts)
           maxCount == MaxSeq(counts)
           devPenalty == IF standardDeviationExceeds(counts, 3) THEN 10 ELSE 0
       IN Returned(MathMax(0, 100 - AveragePenalty(avgCount) - PeakPenalty(maxCount) - devPenalty))

\* Faulty variant of the compliance test: a gap of exactly breakDuration fails
IsCompliantGapStrict(gapMin, breakDuration) == gapMin > breakDuration

\* The test of line 1200
IsCompliantGap(gapMin, breakDuration) == gapMin >= breakDuration

_computeBreakComplianceScore(settings, appointments) ==
  IF Len(appointments) < 2 THEN Returned(100)
  ELSE IF groupByDayThrows(appointments) THEN TypeError
  ELSE LET gaps == GapsOfBuckets(groupByDay(appointments))
           totalGaps == Len(gaps)
           compliantGaps == Cardinality({i \in 1..totalGaps : IsCompliantGap(gaps[i], settings.breakDuration)})
           totalGapMinutes == SumSeq(gaps)
           complianceRatio == IF totalGaps # 0 THEN Rat(compliantGaps, totalGaps) ELSE Rat(1, 1)
           avgGap == IF totalGaps # 0 THEN Rat(totalGapMinutes, totalGaps)
                     ELSE Rat(settings.breakDuration, 1)
           \* avgGap > breakDuration * 1.5
           generosityBonus ==
             IF 2 * avgGap.num > 3 * settings.breakDuration * avgGap.den THEN 5 ELSE 0
       IN Returned(MathMin(100,
            MathRound(Rat(100 * complianceRatio.num, complianceRatio.den)) + generosityBonus))

_computeEveningWorkScore(appointments) ==
  IF Len(appointments) = 0 THEN Returned(100)
  ELSE LET n == Len(appointments)
           eveningEvents == SelectSeq(appointments, _isEveningEvent)
           nightEvents == SelectSeq(appointments, _isNightEvent)
           \* penalty = eveningRatio * 40 + nightRatio * 60, over the common denominator n
           penalty == Rat(Len(eveningEvents) * 40 + Len(nightEvents) * 60, n)
       IN Returned(MathMax(0, MathRound(Rat(100 * n - penalty.num, n))))

\* Faulty variant of the Weekly Balance score: the first decay segment has no
\* floor
_computeWeeklyBalanceScoreNoFloor(appointments) ==
  LET totalMinutes == _calculateTotalWorkMinutes(appointments)
      W == CONFIG.THRESHOLDS.WEEKLY
  IN IF totalMinutes = 0 THEN Returned(100)
     ELSE IF totalMinutes <= 60 * W.OPTIMAL_HOURS THEN Returned(100)
     ELSE IF totalMinutes <= 60 * W.GOOD_HOURS
          THEN Returned(100 - MathRound(Rat(3 * (totalMinutes - 60 * W.OPTIMAL_HOURS), 60)))
     ELSE IF totalMinutes <= 60 * W.WARNING_HOURS
          THEN Returned(MathMax(60,
                 80 - MathRound(Rat(5 * (totalMinutes - 60 * W.GOOD_HOURS), 120))))
     ELSE IF totalMinutes <= 60 * W.DANGER_HOURS
          THEN Returned(MathMax(30, 60 - MathRound(Rat(3 * (totalMinutes - 60 * 40), 60))))
     ELSE Returned(MathMax(0, 30 - MathRound(Rat(2 * (totalMinutes - 60 * 50), 60))))

_computeWeeklyBalanceScore(appointments) ==
  LET totalMinutes == _calculateTotalWorkMinutes(appointments)
      W == CONFIG.THRESHOLDS.WEEKLY
  IN IF totalMinutes = 0 THEN Returned(100)
     ELSE IF totalMinutes <= 60 * W.OPTIMAL_HOURS THEN Returned(100)
     ELSE IF totalMinutes <= 60 * W.GOOD_HOURS
          THEN Returned(MathMax(80,
                 100 - MathRound(Rat(3 * (totalMinutes - 60 * W.OPTIMAL_HOURS), 60))))
     ELSE IF totalMinutes <= 60 * W.WARNING_HOURS
          THEN Returned(MathMax(60,
                 80 - MathRound(Rat(5 * (totalMinutes - 60 * W.GOOD_HOURS), 120))))
     ELSE IF totalMinutes <= 60 * W.DANGER_HOURS
          THEN Returned(MathMax(30, 60 - MathRound(Rat(3 * (totalMinutes - 60 * 40), 60))))
     ELSE Returned(MathMax(0, 30 - MathRound(Rat(2 * (totalMinutes - 60 * 50), 60))))

\* Calls `this.<name>(...)`: the class defines no such method for the names
\* this is used with, so the callee is `undefined` and the call raises.
CallMethod(name) == IF IsMethod(name) THEN Returned("defined") ELSE TypeError

_computeRecoveryAdequacyScore(appointments) ==
  IF Len(appointments) = 0 THEN Returned(100)
  ELSE LET recoveryMetrics == CallMethod("_calculateRecoveryMetrics")
       IN IF recoveryMetrics.threw THEN TypeError
          ELSE LET totalMinutes == _calculateTotalWorkMinutes(appointments)
                   R == CONFIG.THRESHOLDS.RECOVERY.IDEAL_BREAK_RATIO
                   \* idealRecovery = totalHours * IDEAL_BREAK_RATIO
                   idealRecovery == Rat(totalMinutes * R.num, 60 * R.den)
                   actualRecovery == recoveryMetrics.val.actualRecoveryHours
               IN IF actualRecovery.num * idealRecovery.den >= idealRecovery.num * actualRecovery.den
                  THEN Returned(100)
                  ELSE Returned(MathRound(Rat(100 * actualRecovery.num * idealRecovery.den,
                                              actualRecovery.den * idealRecovery.num)))

(***************************************************************************)
(* PredictiveStressModel                                                   *)
(***************************************************************************)
NewPredictiveStressModel ==
  [ patternHistory |-> <<>>,
    stressIndicators |-> [ rapidSuccession |-> 0, insufficientBreaks |-> 0,
                           eveningOverload |-> 0, consecutiveIntensive |-> 0 ] ]

\* Object.keys(byDay).sort(): the day keys in increasing order
RECURSIVE SortedKeys(_)
SortedKeys(keys) ==
  IF keys = {} THEN <<>>
  ELSE LET k == CHOOSE x \in keys : \A y \in keys : x <= y
       IN <<k>> \o SortedKeys(keys \ {k})

\* The dates.forEach loop: [consecutiveIntensive, maxConsecutive] after the
\* first n dates.
RECURSIVE IntensiveRun(_, _, _)
IntensiveRun(byDay, dates, n) ==
  IF n = 0 THEN [consecutiveIntensive |-> 0, maxConsecutive |-> 0]
  ELSE LET before == IntensiveRun(byDay, dates, n - 1)
           bucket == CHOOSE b \in {byDay[i] : i \in 1..Len(byDay)} : b.day = dates[n]
       IN IF Len(bucket.events) >= 6
          THEN [consecutiveIntensive |-> before.consecutiveIntensive + 1,
                maxConsecutive |-> MathMax(before.maxConsecutive, before.consecutiveIntensive + 1)]
          ELSE [consecutiveIntensive |-> 0, maxConsecutive |-> before.maxConsecutive]

\* Faulty variant of predictStressLevel: the tally is kept in the object's
\* stressIndicators.rapidSuccession and starts from what earlier calls left there
predictStressLevelKeepingTally(self, appointments) ==
  IF Len(appointments) = 0 THEN [ret |-> Returned(100), self |-> self]
  ELSE LET byDay == groupByDay(appointments)
           gaps == GapsOfBuckets(byDay)
           rapid == SumSeq([i \in 1..Len(gaps) |->
                      IF gaps[i] < 10 THEN 2 ELSE IF gaps[i] < 20 THEN 1 ELSE 0])
           dates == SortedKeys({byDay[i].day : i \in 1..Len(byDay)})
           maxConsecutive == IntensiveRun(byDay, dates, Len(dates)).maxConsecutive
           stressIndicators == self.stressIndicators.rapidSuccession + rapid + maxConsecutive * 3
           ratio == IF 2 * stressIndicators >= Len(appointments) THEN Rat(1, 1)
                    ELSE Rat(2 * stressIndicators, Len(appointments))
       IN [ret |-> Returned(MathRound(Rat(100 * (ratio.den - ratio.num), ratio.den))),
           self |-> [self EXCEPT !.stressIndicators.rapidSuccession = stressIndicators]]

\* predictStressLevel: `ret` is what the call returns, `self` the model object
\* after the call.  The tally `stressIndicators` is a local that starts at 0;
\* no field of the object is written.
predictStressLevel(self, appointments) ==
  IF Len(appointments) = 0 THEN [ret |-> Returned(100), self |-> self]
  ELSE LET byDay == groupByDay(appointments)
           gaps == GapsOfBuckets(byDay)
           rapid == SumSeq([i \in 1..Len(gaps) |->
                      IF gaps[i] < 10 THEN 2 ELSE IF gaps[i] < 20 THEN 1 ELSE 0])
           dates == SortedKeys({byDay[i].day : i \in 1..Len(byDay)})
           maxConsecutive == IntensiveRun(byDay, dates, Len(dates)).maxConsecutive
           stressIndicators == 0 + rapid + maxConsecutive * 3
           \* maxIndicators = length * 0.5; ratio = min(stressIndicators / maxIndicators, 1)
           ratio == IF 2 * stressIndicators >= Len(appointments) THEN Rat(1, 1)
                    ELSE Rat(2 * stressIndicators, Len(appointments))
       IN [ret |-> Returned(MathRound(Rat(100 * (ratio.den - ratio.num), ratio.den))),
           self |-> self]

_computePredictiveStressScore(self, appointments) ==
  LET r == predictStressLevel(self.predictiveModel, appointments)
  IN [ret |-> r.ret, self |-> [self EXCEPT !.predictiveModel = r.self]]

(***************************************************************************)
(* Weighting                                                               *)
(***************************************************************************)
WeightKeys == { "DAILY_LOAD", "BREAK_COMPLIANCE", "EVENING_WORK", "WEEKLY_BALANCE",
                "RECOVERY_ADEQUACY", "PREDICTIVE_STRESS" }

RECURSIVE SumOver(_, _)
SumOver(f, keys) ==
  IF keys = {} THEN 0
  ELSE LET k == CHOOSE x \in keys : TRUE IN f[k] + SumOver(f, keys \ {k})

\* Faulty variant of the normalisation: the weights are scaled to sum to 1
NormalizeToOne(adjustedWeights) ==
  LET totalWeight == SumOver(adjustedWeights, DOMAIN adjustedWeights)
  IN [k \in DOMAIN adjustedWeights |-> Rat(adjustedWeights[k], totalWeight)]

\* adjustedWeights[key] *= 100 / totalWeight, for every key
Normalize(adjustedWeights) ==
  LET totalWeight == SumOver(adjustedWeights, DOMAIN adjustedWeights)
  IN [k \in DOMAIN adjustedWeights |-> Rat(adjustedWeights[k] * 100, totalWeight)]

\* Faulty variant of the adjustment: the long-week rule is skipped when the
\* intensive-day rule applied (else if)
AdjustedWeightsOneRule(appointments) ==
  LET weights == CONFIG.HARMONY_WEIGHTS
      totalMinutes == _calculateTotalWorkMinutes(appointments)
      byDay == groupByDay(appointments)
      hasIntensiveDays == \E i \in 1..Len(byDay) : Len(byDay[i].events) >= 8
  IN Normalize(IF hasIntensiveDays
               THEN [weights EXCEPT !.BREAK_COMPLIANCE = @ + 5, !.DAILY_LOAD = @ - 5]
               ELSE IF totalMinutes > 35 * 60
                    THEN [weights EXCEPT !.WEEKLY_BALANCE = @ + 5, !.EVENING_WORK = @ - 5]
                    ELSE weights)

\* The weights _applyIntelligentWeighting applies (lines 1276-1303)
AdjustedWeights(appointments) ==
  LET weights == CONFIG.HARMONY_WEIGHTS
      totalMinutes == _calculateTotalWorkMinutes(appointments)
      byDay == groupByDay(appointments)
      hasIntensiveDays == \E i \in 1..Len(byDay) : Len(byDay[i].events) >= 8
      w1 == IF hasIntensiveDays
            THEN [weights EXCEPT !.BREAK_COMPLIANCE = @ + 5, !.DAILY_LOAD = @ - 5]
            ELSE weights
      \* totalHours > 35
      w2 == IF totalMinutes > 35 * 60
            THEN [w1 EXCEPT !.WEEKLY_BALANCE = @ + 5, !.EVENING_WORK = @ - 5]
            ELSE w1
  IN Normalize(w2)

\* The weighted sum (lines 1305-1314), an exact rational over one denominator
_applyIntelligentWeighting(breakdown, appointments) ==
  LET w == AdjustedWeights(appointments)
      d == w.DAILY_LOAD.den
  IN Rat(  breakdown.dailyLoad * w.DAILY_LOAD.num
         + breakdown.breakCompliance * w.BREAK_COMPLIANCE.num
         + breakdown.eveningWork * w.EVENING_WORK.num
         + breakdown.weeklyBalance * w.WEEKLY_BALANCE.num
         + breakdown.recoveryAdequacy * w.RECOVERY_ADEQUACY.num
         + breakdown.predictiveStress * w.PREDICTIVE_STRESS.num,
         100 * d)

(***************************************************************************)
(* Config helpers                                                          *)
(***************************************************************************)
\* Object.entries(CONFIG.THRESHOLDS.SCORE), in insertion order
ScoreLevelKeys == << "EXCELLENT", "GOOD", "MODERATE", "WARNING", "CRITICAL" >>

toLowerCase(key) ==
  CASE key = "EXCELLENT" -> "excellent"
    [] key = "GOOD" -> "good"
    [] key = "MODERATE" -> "moderate"
    [] key = "WARNING" -> "warning"
    [] key = "CRITICAL" -> "critical"

\* Faulty variant of the band lookup: the lower end of a band is left out
getScoreLevelAboveMin(score) ==
  LET S == CONFIG.THRESHOLDS.SCORE
      hits == {i \in 1..Len(ScoreLevelKeys) :
                 score > S[ScoreLevelKeys[i]].min /\ score <= S[ScoreLevelKeys[i]].max}
  IN IF hits = {} THEN [key |-> "CRITICAL"]
     ELSE [key |-> ScoreLevelKeys[CHOOSE i \in hits : \A j \in hits : i <= j]]

getScoreLevel(score) ==
  LET S == CONFIG.THRESHOLDS.SCORE
      hits == {i \in 1..Len(ScoreLevelKeys) :
                 score >= S[ScoreLevelKeys[i]].min /\ score <= S[ScoreLevelKeys[i]].max}
  IN IF hits = {} THEN [key |-> "CRITICAL"]
     ELSE [key |-> ScoreLevelKeys[CHOOSE i \in hits : \A j \in hits : i <= j]]

\* `value <= thresholds.K` is false when the table has no field K (undefined)
AtMost(value, thresholds, key) == key \in DOMAIN thresholds /\ value <= thresholds[key]

getLoadIntensity(value, type) ==
  LET thresholds == IF type = "daily" THEN CONFIG.THRESHOLDS.DAILY ELSE CONFIG.THRESHOLDS.WEEKLY
  IN IF AtMost(value, thresholds, "OPTIMAL") THEN "optimal"
     ELSE IF AtMost(value, thresholds, "GOOD") \/ AtMost(value, thresholds, "OPTIMAL_HOURS") THEN "good"
     ELSE IF AtMost(value, thresholds, "WARNING") \/ AtMost(value, thresholds, "WARNING_HOURS") THEN "warning"
     ELSE IF AtMost(value, thresholds, "DANGER") \/ AtMost(value, thresholds, "DANGER_HOURS") THEN "danger"
     ELSE "critical"

(***************************************************************************)
(* HarmonyEngine: entry points.  As for predictStressLevel, `ret` is what  *)
(* the call returns or throws and `self` the engine after the call.        *)
(***************************************************************************)
NewHarmonyEngine(settings) ==
  [ settings |-> [k \in DOMAIN CONFIG.DEFAULT_PROFESSIONAL \cup DOMAIN settings |->
                    IF k \in DOMAIN settings THEN settings[k]
                    ELSE CONFIG.DEFAULT_PROFESSIONAL[k]],
    historicalData |-> <<>>,
    predictiveModel |-> NewPredictiveStressModel ]

_getFallbackScore ==
  [ score |-> 50, level |-> "moderate", breakdown |-> <<>>, trends |-> <<>>,
    insights |-> << "Donnees insuffisantes pour une analyse complete." >>,
    recommendations |-> <<>>, criticalDays |-> <<>>, recoveryRecommendation |-> "null" ]

NotReached == [threw |-> FALSE, val |-> "notReached"]

\* Faulty variant of the catch clause: the error is thrown on to the caller
CatchWeeklyRethrows(error) == error

\* The catch clause of computeWeeklyScore (lines 912-915)
CatchWeekly(error) == Returned(_getFallbackScore)

\* The try block of computeWeeklyScore once the six sub-scores have been
\* called for: `steps` holds their outcomes in the order of the calls and
\* `selfAfter` is the engine after the last of them.  The first statement that
\* throws ends the block and the catch clause returns the fallback.  `trace`
\* keeps the locals as they stand when the block is left.
WeeklyTryBlock(self, appointments, steps, selfAfter) ==
  LET thrown == {i \in 1..6 : steps[i].threw}
      firstThrown == IF thrown = {} THEN 7 ELSE CHOOSE i \in thrown : \A j \in thrown : i <= j
      breakdown == [ dailyLoad |-> steps[1].val, breakCompliance |-> steps[2].val,
                     eveningWork |-> steps[3].val, weeklyBalance |-> steps[4].val,
                     recoveryAdequacy |-> steps[5].val, predictiveStress |-> steps[6].val ]
      clampedScore == clamp(MathRound(_applyIntelligentWeighting(breakdown, appointments)), 0, 100)
      \* _analyzeTrends, _generateAdvancedInsights, _generateSmartRecommendations,
      \* _detectCriticalDays, _generateRecoveryRecommendation
      rest == << CallMethod("_analyzeTrends"), CallMethod("_generateAdvancedInsights"),
                 CallMethod("_generateSmartRecommendations"), CallMethod("_detectCriticalDays"),
                 CallMethod("_generateRecoveryRecommendation") >>
      failed == thrown # {} \/ \E i \in 1..5 : rest[i].threw
      error == IF thrown # {} THEN steps[firstThrown]
               ELSE rest[CHOOSE i \in 1..5 : rest[i].threw /\ \A j \in 1..(i - 1) : ~rest[j].threw]
  IN [ ret |-> IF failed THEN CatchWeekly(error)
               ELSE Returned([ score |-> clampedScore,
                               level |-> toLowerCase(getScoreLevel(clampedScore).key),
                               breakdown |-> breakdown,
                               trends |-> rest[1].val,
                               insights |-> rest[2].val,
                               recommendations |-> rest[3].val,
                               criticalDays |-> rest[4].val,
                               recoveryRecommendation |-> rest[5].val ]),
       self |-> IF firstThrown >= 6 THEN selfAfter ELSE self,
       trace |-> [ appointments |-> appointments,
                   breakdown |-> [i \in 1..6 |-> IF i <= firstThrown THEN steps[i] ELSE NotReached],
                   clampedScore |-> IF thrown = {} THEN Returned(clampedScore) ELSE NotReached,
                   failed |-> failed ] ]

WeeklySteps(self, appointments, predictive) ==
  WeeklyTryBlock(self, appointments,
                 << _computeDailyLoadScore(appointments),
                    _computeBreakComplianceScore(self.settings, appointments),
                    _computeEveningWorkScore(appointments),
                    _computeWeeklyBalanceScore(appointments),
                    _computeRecoveryAdequacyScore(appointments),
                    predictive.ret >>,
                 predictive.self)

computeWeeklyScore(self, events) ==
  WeeklySteps(self, _filterAppointments(events),
              _computePredictiveStressScore(self, _filterAppointments(events)))

computeDailyScore(self, dateISO, events) ==
  LET dayEvents == _filterDayAppointments(events, dateISO)
      count == Len(dayEvents)
      totalMinutes == _calculateTotalWorkMinutes(dayEvents)
      hasEvening == \E i \in 1..count : _isEveningEvent(dayEvents[i])
      hasNight == \E i \in 1..count : _isNightEvent(dayEvents[i])
      intensity == getLoadIntensity(count, "daily")
      penalties == [optimal |-> 0, good |-> -5, warning |-> -20, danger |-> -40, critical |-> -60]
      \* hoursWorked > 10, hoursWorked > 8
      hoursPenalty == IF totalMinutes > 10 * 60 THEN 15 ELSE IF totalMinutes > 8 * 60 THEN 8 ELSE 0
      eveningPenalty == IF hasNight THEN 20 ELSE IF hasEvening THEN 10 ELSE 0
      breakScore == _computeBreakComplianceScore(self.settings, dayEvents)
      breakBonus == IF breakScore.val > 80 THEN 5 ELSE IF breakScore.val < 50 THEN -10 ELSE 0
      distribution == CallMethod("_analyzeTimeDistribution")
      clusterPenalty == IF distribution.val.isClustered THEN 10 ELSE 0
      score == 100 + penalties[intensity] - hoursPenalty - eveningPenalty + breakBonus - clusterPenalty
      clamped == clamp(score, 0, 100)
  IN [ ret |-> IF breakScore.threw \/ distribution.threw
               THEN Returned([score |-> 50, level |-> "moderate", appointmentCount |-> 0])
               ELSE Returned([ score |-> clamped,
                               level |-> toLowerCase(getScoreLevel(clamped).key),
                               appointmentCount |-> count,
                               totalWorkMinutes |-> totalMinutes,
                               totalWorkHours |-> Rat(MathRound(Rat(totalMinutes * 10, 60)), 10),
                               hasEveningWork |-> hasEvening,
                               hasNightWork |-> hasNight,
                               breakCompliance |-> breakScore.val,
                               timeDistribution |-> distribution.val,
                               intensity |-> intensity,
                               date |-> dateISO ]),
       self |-> self ]

\* The loop body runs for i = 0 when horizonDays > 0 and throws at
\* _calculateConsecutiveIntensity, after computeDailyScore has returned; with
\* no iteration, _calculateOverallRisk throws.  The catch clause returns the
\* empty prediction.
predictOverloadRisk(self, upcomingEvents, today, horizonDays) ==
  LET dailyScore == computeDailyScore(self, today, upcomingEvents)
      consecutiveIntensity == CallMethod("_calculateConsecutiveIntensity")
      overallRisk == CallMethod("_calculateOverallRisk")
      threw == IF horizonDays > 0 THEN dailyScore.ret.threw \/ consecutiveIntensity.threw
               ELSE overallRisk.threw
  IN [ ret |-> IF threw THEN Returned([predictions |-> <<>>, overallRisk |-> "unknown"])
               ELSE Returned([predictions |-> <<>>, overallRisk |-> overallRisk.val]),
       self |-> IF horizonDays > 0 THEN dailyScore.self ELSE self ]

\* No try block: the TypeError of _analyzeDayCriticality, raised for the first
\* day bucket, reaches the caller.
detectCriticalDays(self, events) ==
  LET appointments == _filterAppointments(events)
      byDay == groupByDay(appointments)
      analysis == CallMethod("_analyzeDayCriticality")
  IN [ ret |-> IF byDay # <<>> /\ analysis.threw THEN TypeError ELSE Returned(<<>>),
       self |-> self ]

\* No try block: _analyzeDayForBlocking throws for the first day bucket, and
\* with no bucket _suggestRecoveryBlocks throws.
suggestOptimalBlocks(self, events) ==
  LET appointments == _filterAppointments(events)
      byDay == groupByDay(appointments)
      dailyAnalysis == CallMethod("_analyzeDayForBlocking")
      recoveryBlocks == CallMethod("_suggestRecoveryBlocks")
  IN [ ret |-> IF (byDay # <<>> /\ dailyAnalysis.threw) \/ recoveryBlocks.threw THEN TypeError
               ELSE Returned([ immediate |-> <<>>, planned |-> <<>>, preventive |-> <<>>,
                               recovery |-> recoveryBlocks.val ]),
       self |-> self ]

\* Math.min and Math.max on exact fractions
RatMin(a, b) == IF a.num * b.den <= b.num * a.den THEN a ELSE b
RatMax(a, b) == IF a.num * b.den >= b.num * a.den THEN a ELSE b
RatMinus(a, b) == Rat(a.num * b.den - b.num * a.den, a.den * b.den)

\* Math.round(x * 10) / 10
RoundToTenth(x) == Rat(MathRound(Rat(10 * x.num, x.den)), 10)

\* The tier ladder of lines 1113-1129: the hours recommended before the
\* break-quality adjustment, and the recovery type
RecoveryTier(totalMinutes, dayCount) ==
  LET W == CONFIG.THRESHOLDS.WEEKLY
  IN IF totalMinutes > 60 * W.CRITICAL_HOURS
     THEN [ recoveryType |-> "extended",          \* (totalHours - 40) * 0.8
            hours |-> RatMin(Rat(24, 1), Rat(8 * (totalMinutes - 60 * 40), 600)) ]
     ELSE IF totalMinutes > 60 * W.DANGER_HOURS
     THEN [ recoveryType |-> "significant",       \* (totalHours - 35) * 0.6
            hours |-> RatMin(Rat(16, 1), Rat(6 * (totalMinutes - 60 * 35), 600)) ]
     ELSE IF totalMinutes > 60 * W.WARNING_HOURS
     THEN [ recoveryType |-> "moderate",          \* (totalHours - 32) * 0.5
            hours |-> RatMin(Rat(8, 1), Rat(5 * (totalMinutes - 60 * 32), 600)) ]
     ELSE IF dayCount > 0 /\ totalMinutes > 7 * 60 * dayCount     \* avgDailyHours > 7
     THEN [ recoveryType |-> "light", hours |-> Rat(4, 1) ]
     ELSE [ recoveryType |-> "none", hours |-> Rat(0, 1) ]

\* Lines 1131-1137: the hours after the adjustment, and the debt
AdjustedRecovery(tier, recoveryMetrics) ==
  [ recoveryType |-> tier.recoveryType,
    hours |-> IF 2 * recoveryMetrics.breakQuality.num < recoveryMetrics.breakQuality.den
              THEN Rat(13 * tier.hours.num, 10 * tier.hours.den)     \* *= 1.3
              ELSE tier.hours ]

RecoveryDebt(recommended, recoveryMetrics) ==
  RatMax(Rat(0, 1), RatMinus(recommended.hours, recoveryMetrics.actualRecoveryHours))

\* The object of lines 1139-1147
RecoveryResult(recommended, recoveryDebt, recoveryMetrics, suggestions) ==
  [ recommendedHours |-> RoundToTenth(recommended.hours),
    recoveryType |-> recommended.recoveryType,
    recoveryDebt |-> RoundToTenth(recoveryDebt),
    breakQuality |-> MathRound(Rat(100 * recoveryMetrics.breakQuality.num,
                                   recoveryMetrics.breakQuality.den)),
    actualRecoveryHours |-> RoundToTenth(recoveryMetrics.actualRecoveryHours),
    suggestions |-> suggestions,
    priority |-> IF recoveryDebt.num > 8 * recoveryDebt.den THEN "high"
                 ELSE IF recoveryDebt.num > 4 * recoveryDebt.den THEN "medium" ELSE "low" ]

RecoveryReturn(recommended, recoveryMetrics, suggestions) ==
  RecoveryResult(recommended, RecoveryDebt(recommended, recoveryMetrics), recoveryMetrics, suggestions)

\* No try block: _calculateRecoveryMetrics (line 1111) throws before any
\* recommendation is derived, and its TypeError reaches the caller.
calculateRecoveryRecommendation(self, events) ==
  LET appointments == _filterAppointments(events)
      recoveryMetrics == CallMethod("_calculateRecoveryMetrics")
      suggestions == CallMethod("_generateRecoverySuggestions")
  IN [ ret |-> IF recoveryMetrics.threw THEN TypeError
               ELSE IF suggestions.threw THEN TypeError
               ELSE Returned(RecoveryReturn(
                      AdjustedRecovery(
                        RecoveryTier(_calculateTotalWorkMinutes(appointments),
                                     Len(groupByDay(appointments))),
                        recoveryMetrics.val),
                      recoveryMetrics.val, suggestions.val)),
       self |-> self ]

(***************************************************************************)
(* Validator (utils/Validator.js).  Dates are minutes since 00:00 of day   *)
(* 0, as for the engine; `today` is the minute of Date.now().              *)
(***************************************************************************)
\* typeof name === 'string' && 2 <= name.trim().length <= 100; the names used
\* have no blank at either end
isValidName(name) == Len(name) >= 2 /\ Len(name) <= 100

\* validateDateRange(start, end): the name of the first rule that fails, or
\* "valid".  A year is taken as 365 days.
validateDateRange(event, today) ==
  IF Missing(event, "start") THEN "start required"
  ELSE IF Missing(event, "end") THEN "end required"
  ELSE IF event.end <= event.start THEN "end not after start"
  ELSE IF event.start < today - 365 * MinutesPerDay THEN "more than a year ago"
  ELSE IF event.start > today + 730 * MinutesPerDay THEN "more than two years ahead"
  ELSE "valid"

\* validateEvent(event): the keys of its errors object.  calculateDuration is
\* NaN when a date is missing, and NaN fails neither duration test.
validateEvent(event, today) ==
  LET errors ==
        (IF Missing(event, "clientName") \/ ~isValidName(event.clientName) THEN {"clientName"} ELSE {})
        \cup (IF validateDateRange(event, today) # "valid" THEN {"dateRange"} ELSE {})
        \cup (IF HasBothTimes(event) /\ (event.end - event.start < 15 \/ event.end - event.start > 480)
              THEN {"duration"} ELSE {})
        \cup (IF ~Missing(event, "type")
                 /\ event.type \notin {CONFIG.EVENT_TYPES[k] : k \in DOMAIN CONFIG.EVENT_TYPES}
              THEN {"type"} ELSE {})
        \cup (IF ~Missing(event, "status")
                 /\ event.status \notin {CONFIG.STATUS[k] : k \in DOMAIN CONFIG.STATUS}
              THEN {"status"} ELSE {})
  IN [valid |-> errors = {}, errors |-> errors]

(***************************************************************************)
(* StorageManager (Config.js:164-836).  A store is a record: version,      *)
(* events, the lengths of notifications and weeklyReports, and settings.   *)
(* The world `w` of a call is the manager `sm`, the localStorage item      *)
(* `ls`, the clock `now` (ms), the number of ids generated and the         *)
(* behaviour `env` of localStorage.setItem during the call.  Every         *)
(* operator returns what the method returns or throws and the world after. *)
(***************************************************************************)
STORAGE_VERSION == 2
cacheTTL == 5000

NoStore == [absent |-> TRUE]
Thrown(name) == [threw |-> TRUE, val |-> name]
Outcome(ret, w) == [ret |-> ret, w |-> w]
MinuteOf(ms) == ms \div 60000

_getDefaultSchema ==
  [ version |-> STORAGE_VERSION, events |-> <<>>, notifications |-> 0, weeklyReports |-> 0,
    settings |-> [dataRetentionDays |-> 365] ]

\* _mergeWithDefaults: the keys the store lacks are taken from the defaults
_mergeWithDefaults(store) ==
  [k \in DOMAIN store \cup DOMAIN _getDefaultSchema |->
     IF k \in DOMAIN store THEN store[k] ELSE _getDefaultSchema[k]]

\* localStorage.setItem throws QuotaExceededError as env.plan says for the
\* next write, and as env.thereafter says once the plan is used up
NextWriteFails(env) ==
  IF env.plan # <<>> THEN Head(env.plan) = "quota" ELSE env.thereafter = "quota"

_writeRaw(w, store) ==
  LET after == [w EXCEPT !.env.writes = @ + 1,
                         !.env.plan = IF @ = <<>> THEN @ ELSE Tail(@)]
  IN IF NextWriteFails(w.env) THEN Outcome(Thrown("QuotaExceededError"), after)
     ELSE Outcome(Returned("undefined"), [after EXCEPT !.ls = store])

_readRaw(w) == w.ls

\* getStore(): the cache while it is younger than cacheTTL, otherwise the
\* memory store or the item read, the default schema being written when
\* there is none
Cached(w, store) == [w EXCEPT !.sm.cache = store, !.sm.cacheTimestamp = w.now]

getStoreDefault(wr) ==
  IF wr.ret.threw THEN wr
  ELSE Outcome(Returned(_getDefaultSchema), Cached(wr.w, _getDefaultSchema))

getStore(w) ==
  IF w.sm.cache # NoStore /\ (w.now - w.sm.cacheTimestamp) < cacheTTL
  THEN Outcome(Returned(w.sm.cache), w)
  ELSE IF (IF w.sm.memoryMode THEN w.sm.memoryStore ELSE _readRaw(w)) = NoStore
       THEN getStoreDefault(_writeRaw(w, _getDefaultSchema))
       ELSE Outcome(Returned(_mergeWithDefaults(IF w.sm.memoryMode THEN w.sm.memoryStore ELSE _readRaw(w))),
                    Cached(w, _mergeWithDefaults(IF w.sm.memoryMode THEN w.sm.memoryStore
                                                 ELSE _readRaw(w))))

\* The store _cleanupOldData saves: soft-deleted events older than the
\* retention period are dropped, notifications cut to 50, reports to 12
IsRetained(ev, store, today) ==
  Missing(ev, "deletedAt") \/ ev.deletedAt > today - store.settings.dataRetentionDays * MinutesPerDay

Cleaned(store, today) ==
  [store EXCEPT !.events = SelectSeq(@, LAMBDA ev : IsRetained(ev, store, today)),
                !.notifications = IF @ > 50 THEN 50 ELSE @,
                !.weeklyReports = IF @ > 12 THEN 12 ELSE @]

\* The depth of nested saveStore calls at which the JavaScript stack is used
\* up.  The RangeError is raised either by the call of _writeRaw, inside the
\* try (env.overflowInTry), or by the call of _cleanupOldData, outside it.
MaxCallDepth == 3

RECURSIVE saveStore(_, _, _)

\* the retry of saveStore (lines 280-286); the cache is not written
saveStoreRetry(wr) ==
  IF wr.ret.threw THEN Outcome(Returned(FALSE), wr.w) ELSE Outcome(Returned(TRUE), wr.w)

saveStoreAfterCleanup(c, store) ==
  IF c.ret.threw THEN c ELSE saveStoreRetry(_writeRaw(c.w, store))

\* _cleanupOldData, from the store getStore gave it
_cleanupOldDataFrom(g, depth) ==
  IF g.ret.threw THEN g
  ELSE IF Missing(g.ret.val, "settings") THEN Outcome(TypeError, g.w)
  ELSE saveStore(g.w, Cleaned(g.ret.val, MinuteOf(g.w.now)), depth + 1)

_cleanupOldData(w, depth) == _cleanupOldDataFrom(getStore([w EXCEPT !.env.cleanups = @ + 1]), depth)

\* saveStore after its first _writeRaw (lines 273-291)
saveStoreAfterWrite(wr, store, depth) ==
  IF ~wr.ret.threw THEN Outcome(Returned(TRUE), Cached(wr.w, store))
  ELSE IF depth >= MaxCallDepth THEN Outcome(Thrown("RangeError"), wr.w)
  ELSE saveStoreAfterCleanup(_cleanupOldData(wr.w, depth), store)

saveStore(w, store, depth) ==
  IF w.sm.memoryMode
  THEN Outcome(Returned(TRUE), Cached([w EXCEPT !.sm.memoryStore = store], store))
  ELSE IF depth >= MaxCallDepth /\ w.env.overflowInTry THEN Outcome(Returned(FALSE), w)
  ELSE saveStoreAfterWrite(_writeRaw(w, store), store, depth)

\* The reply of a method that ends with `if (this.saveStore(store))`
Saved(s) ==
  IF s.ret.threw THEN s ELSE Outcome(Returned([success |-> s.ret.val]), s.w)
Refused(w) == Outcome(Returned([success |-> FALSE]), w)

IndexOfId(list, id) == {i \in 1..Len(list) : ~Missing(list[i], "id") /\ list[i].id = id}
FirstOf(S) == CHOOSE i \in S : \A j \in S : i <= j

\* {...a, ...b}
Spread(a, b) == [k \in DOMAIN a \cup DOMAIN b |-> IF k \in DOMAIN b THEN b[k] ELSE a[k]]

\* addEvent(eventData)
newEvent(eventData, id) ==
  [ id |-> id, clientName |-> eventData.clientName, start |-> eventData.start, end |-> eventData.end,
    type |-> IF Missing(eventData, "type") THEN CONFIG.EVENT_TYPES.APPOINTMENT ELSE eventData.type,
    status |-> IF Missing(eventData, "status") THEN CONFIG.STATUS.CONFIRMED ELSE eventData.status,
    version |-> 1 ]

addEventTo(g, eventData) ==
  IF g.ret.threw THEN g
  ELSE Saved(saveStore([g.w EXCEPT !.issued = @ + 1],
                       [g.ret.val EXCEPT !.events = Append(@, newEvent(eventData, g.w.issued + 1))], 0))

addEvent(w, eventData) ==
  IF ~validateEvent(eventData, MinuteOf(w.now)).valid THEN Refused(w)
  ELSE addEventTo(getStore(w), eventData)

\* updateEvent(id, updates); the change history is left out
updateEventIn(g, id, updates) ==
  IF g.ret.threw THEN g
  ELSE IF IndexOfId(g.ret.val.events, id) = {} THEN Refused(g.w)
  ELSE IF /\ (~Missing(updates, "start") \/ ~Missing(updates, "end"))
          /\ ~validateEvent(Spread(g.ret.val.events[FirstOf(IndexOfId(g.ret.val.events, id))], updates),
                            MinuteOf(g.w.now)).valid
       THEN Refused(g.w)
  ELSE Saved(saveStore(g.w,
         [g.ret.val EXCEPT !.events[FirstOf(IndexOfId(g.ret.val.events, id))] =
            [Spread(@, updates) EXCEPT !.version = @ + 1]], 0))

updateEvent(w, id, updates) == updateEventIn(getStore(w), id, updates)

\* deleteEvent(id): the soft delete
deleteEventIn(g, id) ==
  IF g.ret.threw THEN g
  ELSE IF IndexOfId(g.ret.val.events, id) = {} THEN Refused(g.w)
  ELSE Saved(saveStore(g.w,
         [g.ret.val EXCEPT !.events[FirstOf(IndexOfId(g.ret.val.events, id))] =
            Spread(@, [status |-> CONFIG.STATUS.CANCELLED, deletedAt |-> MinuteOf(g.w.now)])], 0))

deleteEvent(w, id) == deleteEventIn(getStore(w), id)

\* hardDeleteEvent(id)
hardDeleteEventIn(g, id) ==
  IF g.ret.threw THEN g
  ELSE IF IndexOfId(g.ret.val.events, id) = {} THEN Refused(g.w)
  ELSE Saved(saveStore(g.w,
         [g.ret.val EXCEPT !.events = SelectSeq(@, LAMBDA ev : Missing(ev, "id") \/ ev.id # id)], 0))

hardDeleteEvent(w, id) == hardDeleteEventIn(getStore(w), id)

\* importFromBackup(jsonString): the try block catches what JSON.parse, the
\* call of the method _migrateImportData, which StorageManager does not
\* define, and saveStore throw
importSaved(s) ==
  IF s.ret.threw THEN Refused(s.w) ELSE Outcome(Returned([success |-> s.ret.val]), s.w)

importFromBackup(w, backup) ==
  IF ~backup.parses THEN Refused(w)
  ELSE IF Missing(backup.data, "version") \/ Missing(backup.data, "events") THEN Refused(w)
  ELSE IF backup.data.version # STORAGE_VERSION THEN Refused(w)
  ELSE importSaved(saveStore(w, backup.data, 0))

(***************************************************************************)
(* Inputs                                                                  *)
(***************************************************************************)
Event(type, status, start, end) == [type |-> type, status |-> status, start |-> start, end |-> end]

At(day, hour, minute) == day * MinutesPerDay + hour * 60 + minute

\* One-hour records: confirmed appointments at 08:00, 09:20 and 21:00 of day 0
\* and at 08:00 of day 1, cancelled appointments at 08:00 and 21:00 of day 0,
\* breaks at 09:20 of day 0 and 08:00 of day 1.
SlotStarts == { At(0, 8, 0), At(0, 9, 20), At(0, 21, 0), At(1, 8, 0) }

EventPool ==
  { Event("appointment", "confirmed", t, t + 60) : t \in SlotStarts }
  \cup { Event("appointment", "cancelled", t, t + 60) : t \in {At(0, 8, 0), At(0, 21, 0)} }
  \cup { Event("break", "confirmed", t, t + 60) : t \in {At(0, 9, 20), At(1, 8, 0)} }

RECURSIVE ListsUpTo(_)
ListsUpTo(n) ==
  IF n = 0 THEN { <<>> }
  ELSE LET shorter == ListsUpTo(n - 1)
       IN shorter \cup { Append(l, e) : l \in {x \in shorter : Len(x) = n - 1}, e \in EventPool }

\* A generated schedule: `peak` confirmed appointments on day 0 and `other`
\* on each of the days 1..days-1, each lasting `dur` minutes, `gap` minutes
\* apart, the first of a day at `first` minutes after midnight.
DayBlock(day, count, dur, gap, first) ==
  [j \in 1..count |->
     Event("appointment", "confirmed",
           day * MinutesPerDay + first + (j - 1) * (dur + gap),
           day * MinutesPerDay + first + (j - 1) * (dur + gap) + dur)]

RECURSIVE Schedule(_, _, _, _, _, _)
Schedule(days, peak, other, dur, gap, first) ==
  IF days = 0 THEN <<>>
  ELSE Schedule(days - 1, peak, other, dur, gap, first)
       \o DayBlock(days - 1, IF days = 1 THEN peak ELSE other, dur, gap, first)

Counts == {0, 1, 5, 6, 7, 8, 10, 11, 12, 13}
GapChoices == {0, 5, 9, 10, 19, 20, 29, 30, 31, 45}

OtherCounts == {0, 5, 12}
CountFamily == { Schedule(d, m, n, 30, 0, 480) : d \in 1..MaxDays, m \in Counts, n \in OtherCounts }
GapFamily == { Schedule(1, m, 0, 60, g, 480) : m \in {2, 3, 5, 6}, g \in GapChoices }
HoursFamily == { Schedule(d, m, m, dur, 0, 480) : d \in 1..MaxDays, m \in {3, 5, 8}, dur \in {90, 150, 240} }
EveningFamily == { Schedule(1, m, 0, 60, 0, 1020) : m \in 1..5 }

\* Half-hour appointments from 22:00 on
NightFamily == { Schedule(1, m, 0, 30, 0, 1320) : m \in 1..3 }

\* A working week: five appointments on each of five days, 30 minutes apart,
\* from 08:00; 25 x dur minutes in all (25 h for dur = 60, 45 h for dur = 108)
WeekDurations == {60, 61, 76, 77, 96, 97, 108, 120, 121, 130, 144, 145, 156}
WeekFamily == { Schedule(5, 5, 5, dur, 30, 480) : dur \in WeekDurations }

\* Six appointments on day 0 and on day 2, and k on the day between them
SpacedFamily ==
  { DayBlock(0, 6, 30, 30, 480) \o DayBlock(1, k, 30, 30, 480) \o DayBlock(2, 6, 30, 30, 480) :
      k \in {0, 1, 6} }

Inputs ==
  ListsUpTo(MaxLen) \cup CountFamily \cup GapFamily \cup HoursFamily \cup EveningFamily
  \cup NightFamily \cup WeekFamily \cup SpacedFamily

\* Records a caller can hand over although no validation would pass them: an
\* appointment that ends ten hours before it starts, one that ends when it
\* starts, and one without a start.
ReversedAppointment == Event("appointment", "confirmed", At(1, 17, 0), At(1, 7, 0))
EmptyAppointment == Event("appointment", "confirmed", At(1, 17, 0), At(1, 17, 0))
StartlessAppointment == [type |-> "appointment", status |-> "confirmed", end |-> At(1, 17, 30)]

\* Weeks of 25 appointments (35 h, 36 h 15, 40 h, 45 h), a day of four
\* appointments from 17:00 on, a single appointment, and no appointment
RawBases ==
  { Schedule(5, 5, 5, dur, 30, 480) : dur \in {84, 87, 96, 108} }
  \cup { Schedule(1, 4, 0, 30, 30, 1020), Schedule(1, 1, 0, 60, 0, 480), <<>> }

\* A base list, alone or followed by one of the records above
RawInputs ==
  RawBases
  \cup { Append(base, ReversedAppointment) : base \in RawBases }
  \cup { Append(base, EmptyAppointment) : base \in RawBases }
  \cup { Append(base, StartlessAppointment) : base \in RawBases }

\* Appointments that start at 21:00 or later
NightAppointments ==
  { Event("appointment", "confirmed", t, t + 30) : t \in {At(0, 21, 0), At(0, 23, 30), At(1, 22, 0)} }

\* The settings objects handed to the constructor: none of the fields, or a
\* breakDuration of 30 minutes.
NoSettings == [k \in {} |-> 0]
SettingsChoices == { NoSettings, [breakDuration |-> 30] }

RecoverySamples == {0, 50, 100}

(***************************************************************************)
(* The state machine: one engine, called by a single-threaded caller       *)
(***************************************************************************)
VARIABLES
  engine,     \* the HarmonyEngine instance
  pc,         \* "idle": no call made or pending; "returned": a call has returned
  call,       \* the method called last
  events,     \* the caller's event list, as it is after the call
  arg,        \* the other arguments of the call
  result,     \* what the call returned or threw
  trace,      \* locals of computeWeeklyScore when its try block was left
  given,      \* the settings object the constructor was given
  used,       \* TRUE once a call on this engine has returned and been consumed
  toasts,     \* ToastSystem.toasts: the ids of the Map, in insertion order
  shown,      \* the number of toasts ToastSystem.show has created
  timeouts,   \* the callbacks setTimeout holds and has not run yet
  stack,      \* ModalSystem.stack: the ids of the open modals, the top last
  modals,     \* the modals ModalSystem.confirm has created, by id
  storage,    \* the StorageManager instance: memoryMode, memoryStore, cache, cacheTimestamp
  localStorage, \* the item under CONFIG.STORAGE_KEY, NoStore when there is none
  now,        \* Date.now(), in ms
  issued,     \* the number of ids generateSecureId has made for events
  calls       \* the number of calls made on the StorageManager

engineVars == << engine, pc, call, events, arg, result, trace, given, used >>
toastVars == << toasts, shown >>
modalVars == << stack, modals >>
storageVars == << storage, localStorage, now, issued, calls >>
vars == << engineVars, toastVars, timeouts, modalVars, storageVars >>

\* new ToastSystem() (HarmonyScoreWidget.js:306-312), no timer pending
maxToasts == 5
NewToastSystem ==
  /\ toasts = <<>>
  /\ shown = 0
  /\ timeouts = {}

\* new ModalSystem() (ModalSystem.js:12-25)
NewModalSystem ==
  /\ stack = <<>>
  /\ modals = <<>>

\* new StorageManager() in a browser whose localStorage has no item yet;
\* memoryMode is what SecurityUtils.isStorageAvailable() found
NewStorageManager(memoryMode) ==
  /\ storage = [ memoryMode |-> memoryMode,
                 memoryStore |-> IF memoryMode THEN _getDefaultSchema ELSE NoStore,
                 cache |-> NoStore, cacheTimestamp |-> 0 ]
  /\ localStorage = NoStore
  /\ now = 0
  /\ issued = 0
  /\ calls = 0

NoTrace == [ appointments |-> <<>>, breakdown |-> [i \in 1..6 |-> NotReached],
             clampedScore |-> NotReached, failed |-> FALSE ]
NoArg == [date |-> 0, recoveryAdequacy |-> 0, horizonDays |-> 0, value |-> 0, type |-> "daily"]

Init ==
  /\ given \in SettingsChoices
  /\ engine = NewHarmonyEngine(given)
  /\ used = FALSE
  /\ pc = "idle"
  /\ call = "none"
  /\ events = <<>>
  /\ arg = NoArg
  /\ result = Returned("none")
  /\ trace = NoTrace
  /\ NewToastSystem
  /\ NewModalSystem
  /\ NewStorageManager(FALSE)

\* The return of a method called with the list `evs` and the arguments `a`:
\* `r` is its outcome, `t` the locals it leaves
Finish(name, evs, a, r, t) ==
  /\ pc' = "returned"
  /\ call' = name
  /\ events' = evs
  /\ arg' = a
  /\ result' = r.ret
  /\ engine' = r.self
  /\ trace' = t
  /\ UNCHANGED << given, used, toastVars, timeouts, modalVars, storageVars >>

FinishWeekly(evs, r) == Finish("computeWeeklyScore", evs, NoArg, r, r.trace)

Pure(self, ret) == [ret |-> ret, self |-> self]

DailyLoadScore ==
  \E evs \in Inputs :
    /\ pc = "idle"
    /\ Finish("_computeDailyLoadScore", evs, NoArg, Pure(engine, _computeDailyLoadScore(evs)), NoTrace)

BreakComplianceScore ==
  \E evs \in Inputs :
    /\ pc = "idle"
    /\ Finish("_computeBreakComplianceScore", evs, NoArg,
           Pure(engine, _computeBreakComplianceScore(engine.settings, evs)), NoTrace)

EveningWorkScore ==
  \E evs \in Inputs :
    /\ pc = "idle"
    /\ Finish("_computeEveningWorkScore", evs, NoArg, Pure(engine, _computeEveningWorkScore(evs)), NoTrace)

WeeklyBalanceScore ==
  \E evs \in Inputs :
    /\ pc = "idle"
    /\ Finish("_computeWeeklyBalanceScore", evs, NoArg, Pure(engine, _computeWeeklyBalanceScore(evs)), NoTrace)

RecoveryAdequacyScore ==
  \E evs \in Inputs :
    /\ pc = "idle"
    /\ Finish("_computeRecoveryAdequacyScore", evs, NoArg,
           Pure(engine, _computeRecoveryAdequacyScore(evs)), NoTrace)

PredictiveStressScore ==
  \E evs \in Inputs :
    /\ pc = "idle"
    /\ Finish("_computePredictiveStressScore", evs, NoArg,
           _computePredictiveStressScore(engine, evs), NoTrace)

\* _applyIntelligentWeighting on the sub-scores of the list, with a recovery
\* sub-score chosen by the caller; the result is the weighted sum and the
\* weights it was formed with.
IntelligentWeighting ==
  \E evs \in Inputs, ra \in RecoverySamples :
    LET breakdown == [ dailyLoad |-> _computeDailyLoadScore(evs).val,
                       breakCompliance |-> _computeBreakComplianceScore(engine.settings, evs).val,
                       eveningWork |-> _computeEveningWorkScore(evs).val,
                       weeklyBalance |-> _computeWeeklyBalanceScore(evs).val,
                       recoveryAdequacy |-> ra,
                       predictiveStress |-> predictStressLevel(engine.predictiveModel, evs).ret.val ]
    IN /\ pc = "idle"
       /\ Finish("_applyIntelligentWeighting", evs, [NoArg EXCEPT !.recoveryAdequacy = ra],
              Pure(engine, Returned([ weightedScore |-> _applyIntelligentWeighting(breakdown, evs),
                                      clampedScore |->
                                        clamp(MathRound(_applyIntelligentWeighting(breakdown, evs)), 0, 100),
                                      weights |-> AdjustedWeights(evs),
                                      breakdown |-> breakdown ])),
              NoTrace)

WeeklyScore ==
  \E evs \in Inputs :
    /\ pc = "idle"
    /\ FinishWeekly(evs, computeWeeklyScore(engine, evs))

DailyScore ==
  \E evs \in Inputs, date \in 0..1 :
    /\ pc = "idle"
    /\ Finish("computeDailyScore", evs, [NoArg EXCEPT !.date = date],
           computeDailyScore(engine, date, evs), NoTrace)

OverloadRisk ==
  \E evs \in Inputs, h \in {0, 7} :
    /\ pc = "idle"
    /\ Finish("predictOverloadRisk", evs, [NoArg EXCEPT !.horizonDays = h],
           predictOverloadRisk(engine, evs, 0, h), NoTrace)

CriticalDays ==
  \E evs \in Inputs :
    /\ pc = "idle"
    /\ Finish("detectCriticalDays", evs, NoArg, detectCriticalDays(engine, evs), NoTrace)

OptimalBlocks ==
  \E evs \in Inputs :
    /\ pc = "idle"
    /\ Finish("suggestOptimalBlocks", evs, NoArg, suggestOptimalBlocks(engine, evs), NoTrace)

RecoveryRecommendation ==
  \E evs \in Inputs :
    /\ pc = "idle"
    /\ Finish("calculateRecoveryRecommendation", evs, NoArg,
           calculateRecoveryRecommendation(engine, evs), NoTrace)

\* The caller drops the result and is ready for its next call
Return ==
  /\ pc = "returned"
  /\ pc' = "idle"
  /\ call' = "none"
  /\ events' = <<>>
  /\ arg' = NoArg
  /\ result' = Returned("none")
  /\ trace' = NoTrace
  /\ used' = TRUE
  /\ UNCHANGED << engine, given, toastVars, timeouts, modalVars, storageVars >>

Next ==
  \/ DailyLoadScore
  \/ BreakComplianceScore
  \/ EveningWorkScore
  \/ WeeklyBalanceScore
  \/ RecoveryAdequacyScore
  \/ PredictiveStressScore
  \/ IntelligentWeighting
  \/ WeeklyScore
  \/ DailyScore
  \/ OverloadRisk
  \/ CriticalDays
  \/ OptimalBlocks
  \/ RecoveryRecommendation
  \/ Return

Spec == Init /\ [][Next]_vars

(***************************************************************************)
(* The same engine called with lists that were not validated               *)
(***************************************************************************)
RawDailyLoadScore ==
  \E evs \in RawInputs :
    /\ pc = "idle"
    /\ Finish("_computeDailyLoadScore", evs, NoArg, Pure(engine, _computeDailyLoadScore(evs)), NoTrace)

RawBreakComplianceScore ==
  \E evs \in RawInputs :
    /\ pc = "idle"
    /\ Finish("_computeBreakComplianceScore", evs, NoArg,
           Pure(engine, _computeBreakComplianceScore(engine.settings, evs)), NoTrace)

RawEveningWorkScore ==
  \E evs \in RawInputs :
    /\ pc = "idle"
    /\ Finish("_computeEveningWorkScore", evs, NoArg, Pure(engine, _computeEveningWorkScore(evs)), NoTrace)

RawWeeklyBalanceScore ==
  \E evs \in RawInputs :
    /\ pc = "idle"
    /\ Finish("_computeWeeklyBalanceScore", evs, NoArg, Pure(engine, _computeWeeklyBalanceScore(evs)), NoTrace)

\* The long-week test of _applyIntelligentWeighting (totalHours > 35) with the
\* total it is made on; the list has a start in every record
RawLongWeekTest ==
  \E evs \in {l \in RawInputs : ~groupByDayThrows(l)} :
    /\ pc = "idle"
    /\ Finish("_applyIntelligentWeighting", evs, NoArg,
           Pure(engine, Returned([ totalMinutes |-> _calculateTotalWorkMinutes(evs),
                                   weights |-> AdjustedWeights(evs) ])),
           NoTrace)

RawNext ==
  \/ RawDailyLoadScore
  \/ RawBreakComplianceScore
  \/ RawEveningWorkScore
  \/ RawWeeklyBalanceScore
  \/ RawLongWeekTest
  \/ Return

SpecRaw == Init /\ [][RawNext]_vars

(***************************************************************************)
(* The level helpers of Config.js, called on their own and through the two *)
(* scores that report a level                                              *)
(***************************************************************************)
ScoreValues == 0..100
LoadValues == 0..61

ScoreLevel ==
  \E score \in ScoreValues :
    /\ pc = "idle"
    /\ Finish("getScoreLevel", <<>>, [NoArg EXCEPT !.value = score],
           Pure(engine, Returned(getScoreLevel(score))), NoTrace)

LoadIntensity ==
  \E value \in LoadValues, type \in {"daily", "weekly"} :
    /\ pc = "idle"
    /\ Finish("getLoadIntensity", <<>>, [NoArg EXCEPT !.value = value, !.type = type],
           Pure(engine, Returned(getLoadIntensity(value, type))), NoTrace)

LevelsNext ==
  \/ ScoreLevel
  \/ LoadIntensity
  \/ WeeklyScore
  \/ DailyScore
  \/ Return

SpecLevels == Init /\ [][LevelsNext]_vars

(***************************************************************************)
(* ToastSystem (HarmonyScoreWidget.js:305-529).  A toast is known by its   *)
(* id; ids are never reused.  setTimeout callbacks run one at a time, in   *)
(* any order, between two calls.  The pause on hover is left out.          *)
(***************************************************************************)
MaxShown == 6

Timeout(fn, id) == [fn |-> fn, id |-> id]
ToastIds == { toasts[i] : i \in 1..Len(toasts) }

\* dismiss(id): nothing for an id the Map does not hold; otherwise the entry
\* stays and its removal is scheduled after CONFIG.ANIMATION.BASE.  The Map
\* holds timerId as it was when the entry was made (null), so no timer is
\* cleared.
dismiss(pending, held, id) ==
  IF id \notin held THEN pending ELSE pending \cup {Timeout("remove", id)}

\* The removal callback of dismiss: element.remove(); this.toasts.delete(id)
WithoutToast(list, id) == SelectSeq(list, LAMBDA t : t # id)

\* show(options): evicts by dismiss(oldest) when the Map holds maxToasts
\* entries or more, then adds the new entry and starts its timer
ToastShow ==
  /\ shown < MaxShown
  /\ LET id == shown + 1
         afterEvict == IF Len(toasts) >= maxToasts
                       THEN dismiss(timeouts, ToastIds, toasts[1])
                       ELSE timeouts
     IN /\ toasts' = Append(toasts, id)
        /\ timeouts' = afterEvict \cup {Timeout("dismiss", id)}
        /\ shown' = id
  /\ UNCHANGED << engineVars, modalVars, storageVars >>

\* The close button of a toast, or the dismiss() of the handle show returned
ToastDismiss ==
  \E id \in 1..shown :
    /\ timeouts' = dismiss(timeouts, ToastIds, id)
    /\ UNCHANGED << engineVars, toastVars, modalVars, storageVars >>

\* dismissAll()
RECURSIVE DismissEach(_, _, _)
DismissEach(pending, held, ids) ==
  IF ids = <<>> THEN pending
  ELSE DismissEach(dismiss(pending, held, Head(ids)), held, Tail(ids))

ToastDismissAll ==
  /\ timeouts' = DismissEach(timeouts, ToastIds, toasts)
  /\ UNCHANGED << engineVars, toastVars, modalVars, storageVars >>

\* The timer of startTimer runs: dismiss(id)
ToastTimerFires ==
  \E t \in timeouts :
    /\ t.fn = "dismiss"
    /\ timeouts' = dismiss(timeouts \ {t}, ToastIds, t.id)
    /\ UNCHANGED << engineVars, toastVars, modalVars, storageVars >>

\* The timeout of dismiss runs: the entry leaves the Map
ToastRemovalFires ==
  \E t \in timeouts :
    /\ t.fn = "remove"
    /\ timeouts' = timeouts \ {t}
    /\ toasts' = WithoutToast(toasts, t.id)
    /\ UNCHANGED << engineVars, shown, modalVars, storageVars >>

ToastNext ==
  \/ ToastShow
  \/ ToastDismiss
  \/ ToastDismissAll
  \/ ToastTimerFires
  \/ ToastRemovalFires

SpecToast == Init /\ [][ToastNext]_vars

(***************************************************************************)
(* ModalSystem.confirm (ModalSystem.js).  A modal made by confirm is a     *)
(* record: the state of the promise confirm returned, whether its element  *)
(* is in the document, and whether its confirm button has been clicked.    *)
(* Modals are created at different milliseconds, so ids differ.            *)
(***************************************************************************)
MaxModals == 3

\* resolve(value): settles a pending promise, nothing on a settled one
resolve(m, value) == IF m.promise = "pending" THEN [m EXCEPT !.promise = value] ELSE m

StackIds(st) == { st[i] : i \in 1..Len(st) }

\* close(id): nothing when the stack does not hold id; otherwise the entry
\* leaves the stack and the removal of the element is scheduled after
\* CONFIG.ANIMATION.SLOW.  close() without id pops the top.
close(st, pending, id) ==
  IF id \notin StackIds(st) THEN [stack |-> st, timeouts |-> pending]
  ELSE [ stack |-> SelectSeq(st, LAMBDA x : x # id),
         timeouts |-> pending \cup {Timeout("removeModal", id)} ]

closeTop(st, pending) ==
  IF st = <<>> THEN [stack |-> st, timeouts |-> pending]
  ELSE close(st, pending, st[Len(st)])

\* closeAll(): close() until the stack is empty
RECURSIVE closeAll(_, _)
closeAll(st, pending) ==
  IF st = <<>> THEN [stack |-> st, timeouts |-> pending]
  ELSE closeAll(closeTop(st, pending).stack, closeTop(st, pending).timeouts)

Closed(c) ==
  /\ stack' = c.stack
  /\ timeouts' = c.timeouts

\* confirm(options): create() appends the element, pushes the modal and binds
\* its buttons; the promise is pending
ModalConfirm ==
  /\ Len(modals) < MaxModals
  /\ modals' = Append(modals, [promise |-> "pending", attached |-> TRUE, confirmUsed |-> FALSE])
  /\ stack' = Append(stack, Len(modals) + 1)
  /\ UNCHANGED << engineVars, toastVars, timeouts, storageVars >>

\* Click on the button with data-action="confirm": onConfirm resolves with
\* true and calls modal.close()
ConfirmButton ==
  \E id \in 1..Len(modals) :
    /\ modals[id].attached
    /\ modals' = [modals EXCEPT ![id] = [resolve(@, "true") EXCEPT !.confirmUsed = TRUE]]
    /\ Closed(close(stack, timeouts, id))
    /\ UNCHANGED << engineVars, toastVars, storageVars >>

\* Click on the button with data-action="cancel": onCancel resolves with
\* false and calls modal.close(), then the handler calls this.close(modal.id)
CancelButton ==
  \E id \in 1..Len(modals) :
    /\ modals[id].attached
    /\ modals' = [modals EXCEPT ![id] = resolve(@, "false")]
    /\ Closed(close(close(stack, timeouts, id).stack, close(stack, timeouts, id).timeouts, id))
    /\ UNCHANGED << engineVars, toastVars, storageVars >>

\* Click on the header button with data-action="close": this.close(modal.id)
HeaderCloseButton ==
  \E id \in 1..Len(modals) :
    /\ modals[id].attached
    /\ Closed(close(stack, timeouts, id))
    /\ UNCHANGED << engineVars, toastVars, modals, storageVars >>

\* keydown Escape: close() when a modal is open (closeOnEscape is not false)
EscapeKey ==
  /\ Closed(closeTop(stack, timeouts))
  /\ UNCHANGED << engineVars, toastVars, modals, storageVars >>

\* Click on the overlay: close() when a modal is open (closeOnOverlay is not
\* false)
OverlayClick ==
  /\ Closed(closeTop(stack, timeouts))
  /\ UNCHANGED << engineVars, toastVars, modals, storageVars >>

ModalCloseAll ==
  /\ Closed(closeAll(stack, timeouts))
  /\ UNCHANGED << engineVars, toastVars, modals, storageVars >>

\* The timeout of close runs: element.remove()
ModalRemovalFires ==
  \E t \in timeouts :
    /\ t.fn = "removeModal"
    /\ timeouts' = timeouts \ {t}
    /\ modals' = [modals EXCEPT ![t.id].attached = FALSE]
    /\ UNCHANGED << engineVars, toastVars, stack, storageVars >>

ModalNext ==
  \/ ModalConfirm
  \/ ConfirmButton
  \/ CancelButton
  \/ HeaderCloseButton
  \/ EscapeKey
  \/ OverlayClick
  \/ ModalCloseAll
  \/ ModalRemovalFires

SpecModal == Init /\ [][ModalNext]_vars

(***************************************************************************)
(* The StorageManager and its callers.  Each call is made with a behaviour *)
(* of localStorage.setItem for its duration; time passes between calls.    *)
(***************************************************************************)
MaxCalls == 3
MaxIssued == 1
MaxVersion == 2
MaxTicks == 1

\* What addEvent is called with: a valid appointment, and one that ends
\* before it starts, one of ten minutes, one of nine hours, one without end,
\* one without client name, one that started 400 days ago
EventData ==
  { [clientName |-> "Ana", start |-> At(0, 9, 0), end |-> At(0, 10, 0)],
    [clientName |-> "Ana", start |-> At(0, 10, 0), end |-> At(0, 9, 0)],
    [clientName |-> "Ana", start |-> At(0, 9, 0), end |-> At(0, 9, 10)],
    [clientName |-> "Ana", start |-> At(0, 8, 0), end |-> At(0, 17, 0)],
    [clientName |-> "Ana", start |-> At(0, 9, 0)],
    [clientName |-> "", start |-> At(0, 9, 0), end |-> At(0, 10, 0)],
    [clientName |-> "Ana", start |-> At(0, 9, 0) - 400 * MinutesPerDay,
     end |-> At(0, 10, 0) - 400 * MinutesPerDay] }

\* What updateEvent is called with: new times, an end no later than any start
\* used, a new status
EventUpdates ==
  { [start |-> At(0, 11, 0), end |-> At(0, 12, 0)],
    [end |-> At(0, 8, 0)],
    [status |-> "completed"] }

\* Full backups: one appointment, one appointment that ends before it starts,
\* and one soft-deleted 400 days ago with 51 notifications and 13 reports
StoredEvent(id, status, start, end) ==
  [ id |-> id, clientName |-> "Eve", start |-> start, end |-> end,
    type |-> "appointment", status |-> status, version |-> 1 ]

FullStores ==
  { [_getDefaultSchema EXCEPT !.events = << StoredEvent(101, "confirmed", At(0, 9, 0), At(0, 10, 0)) >>],
    [_getDefaultSchema EXCEPT !.events = << StoredEvent(102, "confirmed", At(0, 10, 0), At(0, 9, 0)) >>],
    [_getDefaultSchema EXCEPT
       !.events = << Spread(StoredEvent(103, "cancelled", At(0, 9, 0) - 400 * MinutesPerDay,
                                        At(0, 10, 0) - 400 * MinutesPerDay),
                            [deletedAt |-> -400 * MinutesPerDay]) >>,
       !.notifications = 51, !.weeklyReports = 13] }

\* What importFromBackup is called with: text that is no JSON, JSON without
\* events, a backup of version 1, a backup with version and events only, and
\* the full backups
Backups ==
  { [parses |-> FALSE],
    [parses |-> TRUE, data |-> [version |-> STORAGE_VERSION]],
    [parses |-> TRUE, data |-> [version |-> 1, events |-> <<>>]],
    [parses |-> TRUE, data |-> [version |-> STORAGE_VERSION, events |-> <<>>]] }
  \cup { [parses |-> TRUE, data |-> store] : store \in FullStores }

EventIdsUsed == (1..MaxIssued) \cup {101, 102, 103}

\* localStorage.setItem during one call: it never fails, fails once, fails
\* at the first and the third write, or fails at every write
Env(plan, thereafter, overflowInTry) ==
  [ plan |-> plan, thereafter |-> thereafter, overflowInTry |-> overflowInTry,
    writes |-> 0, cleanups |-> 0 ]

Envs ==
  { Env(<<>>, "ok", FALSE), Env(<<"quota">>, "ok", FALSE),
    Env(<<"quota", "ok", "quota">>, "ok", FALSE),
    Env(<<>>, "quota", FALSE), Env(<<>>, "quota", TRUE) }

World(env) == [sm |-> storage, ls |-> localStorage, now |-> now, issued |-> issued, env |-> env]

\* The data that outlive the cache: the memory store in memory mode, the
\* localStorage item otherwise
Persisted(sm, ls) == IF sm.memoryMode THEN sm.memoryStore ELSE ls

\* What is kept of a call: its arguments, and whether setItem failed at
\* every write
EveryWriteFails(env) == env.plan = <<>> /\ env.thereafter = "quota"

StorageDone(name, a, r) ==
  /\ calls' = calls + 1
  /\ call' = name
  /\ arg' = [a EXCEPT !.env = EveryWriteFails(@)]
  /\ result' = [ threw |-> r.ret.threw, val |-> r.ret.val,
                 writes |-> r.w.env.writes, cleanups |-> r.w.env.cleanups ]
  /\ storage' = r.w.sm
  /\ localStorage' = r.w.ls
  /\ issued' = r.w.issued
  /\ UNCHANGED << engine, pc, events, trace, given, used, now, toastVars, timeouts, modalVars >>

GetStore ==
  \E env \in Envs :
    /\ calls < MaxCalls
    /\ StorageDone("getStore", [env |-> env], getStore(World(env)))

SaveStore ==
  \E store \in FullStores, env \in Envs :
    /\ calls < MaxCalls
    /\ StorageDone("saveStore", [store |-> store, env |-> env], saveStore(World(env), store, 0))

AddEvent ==
  \E data \in EventData, env \in Envs :
    /\ calls < MaxCalls
    /\ issued < MaxIssued
    /\ StorageDone("addEvent", [data |-> data, env |-> env], addEvent(World(env), data))

VersionsOf(store) ==
  IF store = NoStore THEN {}
  ELSE { store.events[i].version : i \in 1..Len(store.events) }

UpdateEvent ==
  \E id \in EventIdsUsed, updates \in EventUpdates, env \in Envs :
    /\ calls < MaxCalls
    /\ \A v \in VersionsOf(storage.cache) \cup VersionsOf(Persisted(storage, localStorage)) :
         v < MaxVersion
    /\ StorageDone("updateEvent", [id |-> id, data |-> updates, env |-> env],
                   updateEvent(World(env), id, updates))

DeleteEvent ==
  \E id \in EventIdsUsed, env \in Envs :
    /\ calls < MaxCalls
    /\ StorageDone("deleteEvent", [id |-> id, env |-> env], deleteEvent(World(env), id))

HardDeleteEvent ==
  \E id \in EventIdsUsed, env \in Envs :
    /\ calls < MaxCalls
    /\ StorageDone("hardDeleteEvent", [id |-> id, env |-> env], hardDeleteEvent(World(env), id))

ImportFromBackup ==
  \E backup \in Backups, env \in Envs :
    /\ calls < MaxCalls
    /\ StorageDone("importFromBackup", [backup |-> backup, env |-> env],
                   importFromBackup(World(env), backup))

\* Time passes between two calls: as long as a cache entry lives
Tick ==
  /\ now < cacheTTL * MaxTicks
  /\ now' = now + cacheTTL
  /\ UNCHANGED << engineVars, toastVars, timeouts, modalVars, storage, localStorage, issued, calls >>

StorageInit ==
  /\ given = NoSettings
  /\ engine = NewHarmonyEngine(given)
  /\ used = FALSE
  /\ pc = "idle"
  /\ call = "none"
  /\ events = <<>>
  /\ arg = NoArg
  /\ result = Returned("none")
  /\ trace = NoTrace
  /\ NewToastSystem
  /\ NewModalSystem
  /\ \E memoryMode \in BOOLEAN : NewStorageManager(memoryMode)

StorageNext ==
  \/ GetStore
  \/ SaveStore
  \/ AddEvent
  \/ UpdateEvent
  \/ DeleteEvent
  \/ HardDeleteEvent
  \/ ImportFromBackup
  \/ Tick

SpecStorage == StorageInit /\ [][StorageNext]_vars

(***************************************************************************)
(* Properties.  The quantities below are stated over the event list itself *)
(* (sets of positions), independently of the loops of the engine.          *)
(***************************************************************************)
Positions(evs) == 1..Len(evs)
DaysOf(evs) == { evs[i].start \div 1440 : i \in Positions(evs) }
OnDay(evs, d) == { i \in Positions(evs) : evs[i].start \div 1440 = d }
StartHour(ev) == (ev.start % 1440) \div 60
WorkedMinutes(evs) == SumOver([i \in Positions(evs) |-> evs[i].end - evs[i].start], Positions(evs))

\* i is followed by j: both start on the same day and j is the next one in
\* order of start time (list order among equal starts)
Earlier(evs, i, j) ==
  /\ evs[i].start \div 1440 = evs[j].start \div 1440
  /\ evs[i].start < evs[j].start \/ (evs[i].start = evs[j].start /\ i < j)
ConsecutivePairs(evs) ==
  { p \in Positions(evs) \X Positions(evs) :
      /\ Earlier(evs, p[1], p[2])
      /\ ~ \E k \in Positions(evs) : Earlier(evs, p[1], k) /\ Earlier(evs, k, p[2]) }
GapOf(evs, p) == evs[p[2]].start - evs[p[1]].end

Scorers == { "_computeDailyLoadScore", "_computeBreakComplianceScore", "_computeEveningWorkScore",
             "_computeWeeklyBalanceScore", "_computeRecoveryAdequacyScore",
             "_computePredictiveStressScore" }

\* C1: every dimension scorer returns an integer in 0..100 for every event
\* list, and so is the score computeWeeklyScore returns.
C1_ScoresWithinBounds ==
  pc = "returned" =>
    /\ call \in Scorers => (~result.threw /\ result.val \in 0..100)
    /\ call = "computeWeeklyScore" => (~result.threw /\ result.val.score \in 0..100)

\* C2: computeWeeklyScore never throws; when a step of its pipeline failed it
\* returns the fallback (score 50, level moderate, empty breakdown, one
\* insight, no recommendations), otherwise the result with the six-entry
\* breakdown.
C2_WeeklyScoreNeverThrows ==
  (pc = "returned" /\ call = "computeWeeklyScore") =>
    /\ ~result.threw
    /\ trace.failed =>
         /\ result.val.score = 50
         /\ result.val.level = "moderate"
         /\ DOMAIN result.val.breakdown = {}
         /\ Len(result.val.insights) = 1
         /\ result.val.recommendations = <<>>
    /\ ~trace.failed =>
         DOMAIN result.val.breakdown =
           { "dailyLoad", "breakCompliance", "eveningWork", "weeklyBalance",
             "recoveryAdequacy", "predictiveStress" }

C2_Witness ==
  /\ pc = "returned" /\ call = "computeWeeklyScore"
  /\ Len(trace.appointments) > 0
  /\ trace.breakdown[5].threw
  /\ result.val.score = 50

\* C3: computeWeeklyScore([]) returns score 100 and an empty criticalDays list.
C3_EmptyListScores100 ==
  (pc = "returned" /\ call = "computeWeeklyScore" /\ events = <<>>) =>
    /\ ~result.threw
    /\ result.val.score = 100
    /\ result.val.criticalDays = <<>>

\* C4: cancelled records and records that are not appointments influence
\* nothing: every entry point gives for a list what it gives for the list
\* without those records, sub-scores of the weekly pipeline included.
IsIgnored(ev) == ev.status = "cancelled" \/ ev.type # "appointment"
WithoutIgnored(evs) == LET Kept(ev) == ~IsIgnored(ev) IN SelectSeq(evs, Kept)

C4_IgnoredRecordsDoNotMatter ==
  pc = "returned" =>
    /\ call = "computeWeeklyScore" =>
         /\ result = computeWeeklyScore(engine, WithoutIgnored(events)).ret
         /\ trace = computeWeeklyScore(engine, WithoutIgnored(events)).trace
    /\ call = "computeDailyScore" =>
         result = computeDailyScore(engine, arg.date, WithoutIgnored(events)).ret
    /\ call = "detectCriticalDays" =>
         result = detectCriticalDays(engine, WithoutIgnored(events)).ret
    /\ call = "calculateRecoveryRecommendation" =>
         result = calculateRecoveryRecommendation(engine, WithoutIgnored(events)).ret

C4_Witness ==
  /\ pc = "returned" /\ call = "computeWeeklyScore"
  /\ \E i \in Positions(events) : IsIgnored(events[i])
  /\ \E i \in Positions(events) : ~IsIgnored(events[i])
  /\ ~trace.breakdown[4].threw /\ trace.breakdown[4].val = 100

\* C5: whatever calls came before, a call gives what it gives on a fresh
\* engine with the same settings: the engine, its predictive model included,
\* is after every call what the constructor made it.
OnFreshEngine(name, evs, a) ==
  LET fresh == NewHarmonyEngine(given)
  IN CASE name = "_computeDailyLoadScore" -> _computeDailyLoadScore(evs)
       [] name = "_computeBreakComplianceScore" -> _computeBreakComplianceScore(fresh.settings, evs)
       [] name = "_computeEveningWorkScore" -> _computeEveningWorkScore(evs)
       [] name = "_computeWeeklyBalanceScore" -> _computeWeeklyBalanceScore(evs)
       [] name = "_computeRecoveryAdequacyScore" -> _computeRecoveryAdequacyScore(evs)
       [] name = "_computePredictiveStressScore" -> _computePredictiveStressScore(fresh, evs).ret
       [] name = "computeWeeklyScore" -> computeWeeklyScore(fresh, evs).ret
       [] name = "computeDailyScore" -> computeDailyScore(fresh, a.date, evs).ret
       [] name = "predictOverloadRisk" -> predictOverloadRisk(fresh, evs, 0, a.horizonDays).ret
       [] name = "detectCriticalDays" -> detectCriticalDays(fresh, evs).ret
       [] name = "suggestOptimalBlocks" -> suggestOptimalBlocks(fresh, evs).ret
       [] name = "calculateRecoveryRecommendation" -> calculateRecoveryRecommendation(fresh, evs).ret

C5_SameAsOnFreshEngine ==
  /\ engine = NewHarmonyEngine(given)
  /\ (pc = "returned" /\ call # "_applyIntelligentWeighting") =>
       result = OnFreshEngine(call, events, arg)

C5_Witness ==
  /\ pc = "returned" /\ used
  /\ call = "_computePredictiveStressScore"
  /\ ~result.threw /\ result.val < 100

\* C6: the six weights _applyIntelligentWeighting applies sum to exactly 100,
\* whichever of the two adjustments were made.
HasIntensiveDay(evs) == \E d \in DaysOf(evs) : Cardinality(OnDay(evs, d)) >= 8
IsLongWeek(evs) == WorkedMinutes(evs) > 35 * 60

C6_WeightsSumTo100 ==
  (pc = "returned" /\ call = "_applyIntelligentWeighting") =>
    LET w == result.val.weights
        d == w.DAILY_LOAD.den
    IN /\ DOMAIN w = WeightKeys
       /\ d > 0
       /\ \A k \in WeightKeys : w[k].den = d
       /\ SumOver([k \in WeightKeys |-> w[k].num], WeightKeys) = 100 * d

C6_Witness ==
  /\ pc = "returned" /\ call = "_applyIntelligentWeighting"
  /\ HasIntensiveDay(events) /\ IsLongWeek(events)
  /\ result.val.weights.BREAK_COMPLIANCE.num = 25 * result.val.weights.BREAK_COMPLIANCE.den

\* C7: the weights are 25/20/15/20/15/5, with 5 points moved from Daily Load
\* to Break Compliance when some day has at least 8 appointments and 5 points
\* moved from Evening Work to Weekly Balance when the hours exceed 35, both
\* together when both hold; the composite is the sum of subScore/100 x weight
\* rounded to the nearest integer and clamped to 0..100.
ExpectedWeights(evs) ==
  LET a == IF HasIntensiveDay(evs) THEN 5 ELSE 0
      b == IF IsLongWeek(evs) THEN 5 ELSE 0
  IN [ DAILY_LOAD |-> 25 - a, BREAK_COMPLIANCE |-> 20 + a, EVENING_WORK |-> 15 - b,
       WEEKLY_BALANCE |-> 20 + b, RECOVERY_ADEQUACY |-> 15, PREDICTIVE_STRESS |-> 5 ]

C7_WeightsAndComposite ==
  (pc = "returned" /\ call = "_applyIntelligentWeighting") =>
    LET w == result.val.weights
        e == ExpectedWeights(events)
        b == result.val.breakdown
        hundredfold == b.dailyLoad * e.DAILY_LOAD + b.breakCompliance * e.BREAK_COMPLIANCE
                       + b.eveningWork * e.EVENING_WORK + b.weeklyBalance * e.WEEKLY_BALANCE
                       + b.recoveryAdequacy * e.RECOVERY_ADEQUACY
                       + b.predictiveStress * e.PREDICTIVE_STRESS
        rounded == (hundredfold + 50) \div 100
    IN /\ \A k \in WeightKeys : w[k].num = e[k] * w[k].den
       /\ result.val.clampedScore = IF rounded < 0 THEN 0 ELSE IF rounded > 100 THEN 100 ELSE rounded

C7_Witness ==
  /\ pc = "returned" /\ call = "_applyIntelligentWeighting"
  /\ HasIntensiveDay(events) /\ IsLongWeek(events)
  /\ result.val.weights.DAILY_LOAD.num = 20 * result.val.weights.DAILY_LOAD.den
  /\ result.val.weights.WEEKLY_BALANCE.num = 25 * result.val.weights.WEEKLY_BALANCE.den
  /\ result.val.clampedScore < 100

\* The Daily Load score with the mean bands b1 < b2 < b3 < b4 (penalties
\* 0/10/20/35/45) and the peak bands p1 < p2 (penalties 0/15/25)
DailyLoadWith(evs, b1, b2, b3, b4, p1, p2) ==
  IF evs = <<>> THEN 100
  ELSE LET days == DaysOf(evs)
           k == Cardinality(days)
           total == Len(evs)
           count == [d \in days |-> Cardinality(OnDay(evs, d))]
           peak == CHOOSE c \in {count[d] : d \in days} : \A d \in days : count[d] <= c
           meanPenalty == IF total <= b1 * k THEN 0 ELSE IF total <= b2 * k THEN 10
                          ELSE IF total <= b3 * k THEN 20 ELSE IF total <= b4 * k THEN 35 ELSE 45
           peakPenalty == IF peak > p2 THEN 25 ELSE IF peak > p1 THEN 15 ELSE 0
           \* standard deviation > 3: mean squared deviation > 9
           squares == SumOver([d \in days |-> (k * count[d] - total) * (k * count[d] - total)], days)
           spreadPenalty == IF squares > 9 * k * k * k THEN 10 ELSE 0
           score == 100 - meanPenalty - peakPenalty - spreadPenalty
       IN IF score < 0 THEN 0 ELSE score

\* C8 as claimed: mean penalty 0 if mean <= 4, 10 if <= 6, 20 if <= 8, 35 if
\* <= 10, else 45; peak penalty 15 if the maximum is > 8 and <= 10, 25 if > 10.
C8_DailyLoadAsClaimed ==
  (pc = "returned" /\ call = "_computeDailyLoadScore") =>
    (~result.threw /\ result.val = DailyLoadWith(events, 4, 6, 8, 10, 8, 10))

\* C8 amended: the Daily Load score is 100 minus a penalty on the mean
\* appointments per day (0 if mean <= 6, 10 if <= 8, 20 if <= 10, 35 if <= 12,
\* otherwise 45), minus a penalty on the largest single-day count (15 if it is
\* > 10 and <= 12, 25 if it is > 12), minus 10 if the standard deviation of
\* the per-day counts exceeds 3, floored at 0.
C8_DailyLoadScore ==
  (pc = "returned" /\ call = "_computeDailyLoadScore") =>
    (~result.threw /\ result.val = DailyLoadWith(events, 6, 8, 10, 12, 10, 12))

C8_Witness ==
  /\ pc = "returned" /\ call = "_computeDailyLoadScore"
  /\ Cardinality(DaysOf(events)) = 2
  /\ \E d \in DaysOf(events) : Cardinality(OnDay(events, d)) = 12
  /\ result.val = 55

\* C9: gaps are taken between consecutive appointments of one day in order of
\* start; a gap is compliant iff it is at least breakDuration; the score is
\* min(100, round(100 x compliant / total) + 5 if the mean gap exceeds
\* 1.5 x breakDuration), and 100 when there is no gap (zero or one
\* appointment); breakDuration is 20 when the settings omit it.
C9_BreakCompliance ==
  /\ "breakDuration" \notin DOMAIN given => engine.settings.breakDuration = 20
  /\ "breakDuration" \in DOMAIN given => engine.settings.breakDuration = given.breakDuration
  /\ (pc = "returned" /\ call = "_computeBreakComplianceScore") =>
       LET bd == engine.settings.breakDuration
           pairs == ConsecutivePairs(events)
           total == Cardinality(pairs)
           compliant == Cardinality({p \in pairs : GapOf(events, p) >= bd})
           minutes == SumOver([p \in pairs |-> GapOf(events, p)], pairs)
           bonus == IF 2 * minutes > 3 * bd * total THEN 5 ELSE 0
           ratio == (200 * compliant + total) \div (2 * total)
       IN /\ ~result.threw
          /\ result.val = IF total = 0 THEN 100
                          ELSE IF ratio + bonus > 100 THEN 100 ELSE ratio + bonus

C9_Witness ==
  /\ pc = "returned" /\ call = "_computeBreakComplianceScore"
  /\ Len(events) = 2
  /\ \E p \in ConsecutivePairs(events) : GapOf(events, p) = engine.settings.breakDuration
  /\ result.val = 100

\* C10: every appointment is in at most one bucket, night when its start hour
\* is >= 21 and otherwise evening when it is >= 18; the score is
\* max(0, 100 - (eveningRatio x 40 + nightRatio x 60)), rounded.
C10_EveningBucketsExclusive ==
  (pc = "returned" /\ call = "_computeEveningWorkScore" /\ events # <<>>) =>
    LET n == Len(events)
        night == Cardinality({i \in Positions(events) : StartHour(events[i]) >= 21})
        evening == Cardinality({i \in Positions(events) :
                                  StartHour(events[i]) >= 18 /\ StartHour(events[i]) < 21})
        score == (2 * (100 * n - 40 * evening - 60 * night) + n) \div (2 * n)
    IN ~result.threw /\ result.val = IF score < 0 THEN 0 ELSE score

\* C11: adding one appointment whose start hour is >= 21 to an event list,
\* the empty list included, never increases the Evening Work sub-score: not
\* when the scorer is called on the list, and not for the sub-score the
\* weekly pipeline computes.
IsNightStart(a) == StartHour(a) >= 21

C11_NightNeverRaisesEvening ==
  pc = "returned" =>
    \A a \in NightAppointments :
      /\ IsNightStart(a)
      /\ call = "_computeEveningWorkScore" =>
           /\ ~result.threw
           /\ ~_computeEveningWorkScore(Append(events, a)).threw
           /\ _computeEveningWorkScore(Append(events, a)).val <= result.val
           /\ _computeEveningWorkScore(<<a>> \o events).val <= result.val
      /\ call = "computeWeeklyScore" =>
           /\ ~trace.breakdown[3].threw
           /\ computeWeeklyScore(engine, Append(events, a)).trace.breakdown[3].val
                <= trace.breakdown[3].val

C11_Witness ==
  /\ pc = "returned" /\ call = "_computeEveningWorkScore"
  /\ Len(events) >= 2
  /\ \E i \in Positions(events) : StartHour(events[i]) >= 18
  /\ result.val > 0
  /\ \E a \in NightAppointments : _computeEveningWorkScore(Append(events, a)).val < result.val

\* C12: the Weekly Balance score is 100 up to 25 scheduled hours, within
\* 80..100 for hours in (25, 32], within 60..80 for (32, 40], within 30..60
\* for (40, 50], within 0..30 above 50; and a list with at least as many
\* scheduled hours as another never scores higher than it.
BalanceInputs == HoursFamily \cup WeekFamily

C12_WeeklyBalanceBands ==
  (pc = "returned" /\ call = "_computeWeeklyBalanceScore") =>
    LET minutes == WorkedMinutes(events)
    IN /\ ~result.threw
       /\ minutes <= 25 * 60 => result.val = 100
       /\ (minutes > 25 * 60 /\ minutes <= 32 * 60) => result.val \in 80..100
       /\ (minutes > 32 * 60 /\ minutes <= 40 * 60) => result.val \in 60..80
       /\ (minutes > 40 * 60 /\ minutes <= 50 * 60) => result.val \in 30..60
       /\ minutes > 50 * 60 => result.val \in 0..30
       /\ \A other \in BalanceInputs :
            WorkedMinutes(other) >= minutes =>
              _computeWeeklyBalanceScore(other).val <= result.val

C12_Witness ==
  /\ pc = "returned" /\ call = "_computeWeeklyBalanceScore"
  /\ WorkedMinutes(events) = 45 * 60
  /\ result.val = 45
  /\ \E other \in BalanceInputs :
       /\ WorkedMinutes(other) > 45 * 60 /\ WorkedMinutes(other) <= 50 * 60
       /\ _computeWeeklyBalanceScore(other).val < 45

\* An intensive day has at least 6 appointments; a run is a set of intensive
\* days d, d+1, ..., d+len-1 of the calendar.
IsIntensiveDay(evs, d) == Cardinality(OnDay(evs, d)) >= 6
IsCalendarRun(evs, d, len) == \A k \in 0..(len - 1) : IsIntensiveDay(evs, d + k)
CalendarLongestRun(evs) ==
  LET lens == { len \in 0..Cardinality(DaysOf(evs)) :
                  len = 0 \/ \E d \in DaysOf(evs) : IsCalendarRun(evs, d, len) }
  IN CHOOSE len \in lens : \A other \in lens : other <= len

\* 2 for every gap under 10 minutes, 1 for every gap of 10 to 19 minutes
GapPoints(evs) ==
  LET pairs == ConsecutivePairs(evs)
  IN SumOver([p \in pairs |-> IF GapOf(evs, p) < 10 THEN 2
                              ELSE IF GapOf(evs, p) < 20 THEN 1 ELSE 0], pairs)

\* round((1 - min(indicators / (0.5 x n), 1)) x 100)
StressScoreFor(n, indicators) ==
  IF 2 * indicators >= n THEN 0 ELSE (200 * (n - 2 * indicators) + n) \div (2 * n)

IsFiveWithFiveMinuteGaps(evs) ==
  /\ Len(evs) = 5 /\ Cardinality(DaysOf(evs)) = 1
  /\ Cardinality(ConsecutivePairs(evs)) = 4
  /\ \A p \in ConsecutivePairs(evs) : GapOf(evs, p) = 5

\* C13: predictStressLevel returns round((1 - min(I / (0.5 x n), 1)) x 100)
\* with I = 2 per same-day consecutive gap under 10 minutes + 1 per gap of 10
\* to 19 minutes + 3 x the longest run of intensive days; 100 for the empty
\* list and 0 for five appointments of one day 5 minutes apart.
C13_StressFormula ==
  (pc = "returned" /\ call = "_computePredictiveStressScore") =>
    /\ ~result.threw
    /\ events = <<>> => result.val = 100
    /\ events # <<>> =>
         result.val = StressScoreFor(Len(events), GapPoints(events) + 3 * CalendarLongestRun(events))
    /\ IsFiveWithFiveMinuteGaps(events) => result.val = 0

\* C14: the run the model multiplies by 3 is the longest run of consecutive
\* calendar days that each have at least 6 appointments: intensive days with
\* a day between them that is not intensive, or has no appointment at all, are
\* runs of length 1.
LongestRunUsed(evs) ==
  LET byDay == groupByDay(evs)
      dates == SortedKeys({byDay[i].day : i \in 1..Len(byDay)})
  IN IntensiveRun(byDay, dates, Len(dates)).maxConsecutive

C14_LongestCalendarRun ==
  (pc = "returned" /\ call = "_computePredictiveStressScore") =>
    LongestRunUsed(events) = CalendarLongestRun(events)

\* The non-cancelled appointments of a list that start on a date
DayList(evs, date) ==
  LET Counted(ev) == ~IsIgnored(ev) /\ ev.start \div 1440 = date IN SelectSeq(evs, Counted)

ClaimedIntensity(count) ==
  IF count <= 4 THEN "optimal" ELSE IF count <= 6 THEN "good" ELSE IF count <= 8 THEN "warning"
  ELSE IF count <= 10 THEN "danger" ELSE "critical"

ClaimedCountPenalty(count) ==
  IF count <= 4 THEN 0 ELSE IF count <= 6 THEN 5 ELSE IF count <= 8 THEN 20
  ELSE IF count <= 10 THEN 40 ELSE 60

\* The break compliance of a list, as C9 states it
ClaimedBreakCompliance(evs, bd) ==
  LET pairs == ConsecutivePairs(evs)
      total == Cardinality(pairs)
      compliant == Cardinality({p \in pairs : GapOf(evs, p) >= bd})
      minutes == SumOver([p \in pairs |-> GapOf(evs, p)], pairs)
      bonus == IF 2 * minutes > 3 * bd * total THEN 5 ELSE 0
  IN IF total = 0 THEN 100
     ELSE IF (200 * compliant + total) \div (2 * total) + bonus > 100 THEN 100
          ELSE (200 * compliant + total) \div (2 * total) + bonus

Clamped(x) == IF x < 0 THEN 0 ELSE IF x > 100 THEN 100 ELSE x

\* 100 - count penalty - hours penalty - evening or night penalty + break
\* adjustment, before the clustering penalty and the clamp
ClaimedDailyBase(day, bd) ==
  LET minutes == WorkedMinutes(day)
      night == \E i \in Positions(day) : StartHour(day[i]) >= 21
      evening == \E i \in Positions(day) : StartHour(day[i]) >= 18
      compliance == ClaimedBreakCompliance(day, bd)
  IN 100 - ClaimedCountPenalty(Len(day))
         - (IF minutes > 10 * 60 THEN 15 ELSE IF minutes > 8 * 60 THEN 8 ELSE 0)
         - (IF night THEN 20 ELSE IF evening THEN 10 ELSE 0)
         + (IF compliance > 80 THEN 5 ELSE IF compliance < 50 THEN -10 ELSE 0)

\* C15: computeDailyScore(date, events) counts exactly the non-cancelled
\* appointments that start on the date and returns their number, the hours
\* worked, the evening and night flags, the day's break compliance, the
\* intensity tier, and the score 100 - count penalty - hours penalty -
\* evening/night penalty + break adjustment, less 10 when the day is
\* clustered, clamped to 0..100.
C15_DailyScore ==
  (pc = "returned" /\ call = "computeDailyScore") =>
    LET day == DayList(events, arg.date)
        base == ClaimedDailyBase(day, engine.settings.breakDuration)
    IN /\ ~result.threw
       /\ { "score", "level", "appointmentCount", "totalWorkHours", "hasEveningWork",
            "hasNightWork", "breakCompliance", "intensity" } \subseteq DOMAIN result.val
       /\ result.val.appointmentCount = Len(day)
       \* the hours to one decimal place: round(minutes / 6) tenths
       /\ result.val.totalWorkHours = [num |-> (2 * WorkedMinutes(day) + 6) \div 12, den |-> 10]
       /\ result.val.hasEveningWork = \E i \in Positions(day) : StartHour(day[i]) >= 18
       /\ result.val.hasNightWork = \E i \in Positions(day) : StartHour(day[i]) >= 21
       /\ result.val.breakCompliance = ClaimedBreakCompliance(day, engine.settings.breakDuration)
       /\ result.val.intensity = ClaimedIntensity(Len(day))
       /\ result.val.score \in { Clamped(base), Clamped(base - 10) }

\* C16: predictOverloadRisk(events, horizonDays) returns horizonDays
\* prediction records, the i-th for the date i - 1 days after the current
\* date (day 0), each with four risk factors and the risk level high when at
\* least three of them are true, medium when two are, low otherwise.
RiskFactorNames == { "highLoad", "poorRecovery", "consecutiveStress", "eveningHeavy" }

C16_OnePredictionPerDay ==
  (pc = "returned" /\ call = "predictOverloadRisk") =>
    /\ ~result.threw
    /\ Len(result.val.predictions) = arg.horizonDays
    /\ \A i \in 1..Len(result.val.predictions) :
         LET record == result.val.predictions[i]
             set == Cardinality({k \in RiskFactorNames : record.riskFactors[k]})
         IN /\ record.date = i - 1
            /\ DOMAIN record.riskFactors = RiskFactorNames
            /\ record.riskLevel = IF set >= 3 THEN "high" ELSE IF set = 2 THEN "medium" ELSE "low"

\* The severity tiers of a day bucket, the highest matching one winning
ClaimedSeverity(day, bd) ==
  IF Len(day) >= 12 \/ WorkedMinutes(day) > 10 * 60 THEN "critical"
  ELSE IF Len(day) \in 9..11 \/ (\E i \in Positions(day) : StartHour(day[i]) >= 21) THEN "high"
  ELSE IF Len(day) \in 7..8 /\ ClaimedBreakCompliance(day, bd) < 50 THEN "medium"
  ELSE "none"

\* C17: detectCriticalDays reports exactly the day buckets that match a
\* tier, each once and with the severity of its highest matching tier
\* (critical: count >= 12 or more than 10 hours; high: count 9..11 or night
\* work; medium: count 7..8 with break compliance under 50); a day of 13
\* back-to-back half-hour appointments from 08:00 is reported critical.
C17_CriticalDays ==
  (pc = "returned" /\ call = "detectCriticalDays") =>
    LET kept == WithoutIgnored(events)
        bd == engine.settings.breakDuration
        expected == { << d, ClaimedSeverity(DayList(kept, d), bd) >> : d \in DaysOf(kept) }
    IN /\ ~result.threw
       /\ { << result.val[i].date, result.val[i].severity >> : i \in 1..Len(result.val) }
            = { e \in expected : e[2] # "none" }
       /\ Len(result.val) = Cardinality({ e \in expected : e[2] # "none" })
       /\ events = Schedule(1, 13, 0, 30, 0, 480) =>
            (Len(result.val) = 1 /\ result.val[1].severity = "critical")

\* The claimed tier for `minutes` worked on `days` days
ClaimedRecoveryType(minutes, days) ==
  IF minutes > 60 * 60 THEN "extended" ELSE IF minutes > 50 * 60 THEN "significant"
  ELSE IF minutes > 40 * 60 THEN "moderate"
  ELSE IF days > 0 /\ minutes > 7 * 60 * days THEN "light" ELSE "none"

\* 600 x the recommended hours
ClaimedHoursTimes600(minutes, days) ==
  LET type == ClaimedRecoveryType(minutes, days)
      Least(a, b) == IF a <= b THEN a ELSE b
  IN CASE type = "extended" -> Least(24 * 600, 8 * (minutes - 40 * 60))
       [] type = "significant" -> Least(16 * 600, 6 * (minutes - 35 * 60))
       [] type = "moderate" -> Least(8 * 600, 5 * (minutes - 32 * 60))
       [] type = "light" -> 4 * 600
       [] type = "none" -> 0

\* x / d rounded to the nearest tenth, in tenths
Tenths(x, d) == (20 * x + d) \div (2 * d)

\* C18: calculateRecoveryRecommendation returns the type and hours of the
\* first matching tier (extended: min(24, (h - 40) x 0.8) above 60 h;
\* significant: min(16, (h - 35) x 0.6) above 50 h; moderate:
\* min(8, (h - 32) x 0.5) above 40 h; light: 4 when the mean daily hours
\* exceed 7; none: 0), the hours times 1.3 when break quality is under 0.5,
\* the debt max(0, recommended - actual) and the priority high above a debt
\* of 8, medium above 4, low otherwise.  Hours are compared as returned, to
\* one decimal place.
C18_RecoveryTiers ==
  (pc = "returned" /\ call = "calculateRecoveryRecommendation") =>
    LET kept == WithoutIgnored(events)
        minutes == WorkedMinutes(kept)
        days == Cardinality(DaysOf(kept))
        plain == Tenths(ClaimedHoursTimes600(minutes, days), 600)
        boosted == Tenths(13 * ClaimedHoursTimes600(minutes, days), 6000)
    IN /\ ~result.threw
       /\ result.val.recoveryType = ClaimedRecoveryType(minutes, days)
       /\ result.val.recommendedHours.den = 10
       /\ result.val.breakQuality < 50 => result.val.recommendedHours.num = boosted
       /\ result.val.breakQuality > 50 => result.val.recommendedHours.num = plain
       /\ result.val.recommendedHours.num \in {plain, boosted}
       /\ result.val.recoveryDebt.den = 10
       /\ LET shortfall == result.val.recommendedHours.num - result.val.actualRecoveryHours.num
              debt == IF shortfall > 0 THEN shortfall ELSE 0
          IN /\ result.val.recoveryDebt.num \in (debt - 1)..(debt + 1)
             /\ result.val.priority \in {"high", "medium", "low"}
             /\ result.val.priority = "high" => result.val.recoveryDebt.num >= 80
             /\ result.val.priority = "medium" => result.val.recoveryDebt.num \in 40..80
             /\ result.val.priority = "low" => result.val.recoveryDebt.num <= 40

\* C19: for a week of 45 worked hours and 2 actual recovery hours the
\* recommendation is of type significant, 6.0 hours, with a debt of 4.0 and
\* priority low.
C19_FortyFiveHourWeek ==
  (/\ pc = "returned" /\ call = "calculateRecoveryRecommendation"
   /\ WorkedMinutes(WithoutIgnored(events)) = 45 * 60) =>
    /\ ~result.threw
    /\ result.val.actualRecoveryHours = [num |-> 20, den |-> 10] =>
         /\ result.val.recoveryType = "significant"
         /\ result.val.recommendedHours = [num |-> 60, den |-> 10]
         /\ result.val.recoveryDebt = [num |-> 40, den |-> 10]
         /\ result.val.priority = "low"

\* C20: the recommended hours are within the range documented for the
\* returned type: 0 for none, 4 for light, 4 to 8 for moderate, 8 to 16 for
\* significant, 16 to 24 for extended; never above 24.
C20_HoursWithinDocumentedRange ==
  (pc = "returned" /\ call = "calculateRecoveryRecommendation") =>
    /\ ~result.threw
    /\ result.val.recommendedHours.den = 10
    /\ result.val.recommendedHours.num <= 240
    /\ result.val.recoveryType = "none" => result.val.recommendedHours.num = 0
    /\ result.val.recoveryType = "light" => result.val.recommendedHours.num = 40
    /\ result.val.recoveryType = "moderate" => result.val.recommendedHours.num \in 40..80
    /\ result.val.recoveryType = "significant" => result.val.recommendedHours.num \in 80..160
    /\ result.val.recoveryType = "extended" => result.val.recommendedHours.num \in 160..240

(***************************************************************************)
(* Lists that were not validated                                           *)
(***************************************************************************)
IsOrdered(ev) == HasBothTimes(ev) /\ ev.end > ev.start
OrderedOnly(evs) == SelectSeq(evs, IsOrdered)
PositiveMinutes(evs) ==
  SumOver([i \in Positions(evs) |-> IF IsOrdered(evs[i]) THEN evs[i].end - evs[i].start ELSE 0],
          Positions(evs))

\* C21: an appointment whose end is not after its start adds nothing to the
\* worked time: Weekly Balance is the score of the list without such
\* appointments, and the long-week test of the weighting is made on the sum
\* of the positive durations.
C21_UnorderedContributeNothing ==
  (pc = "returned" /\ \A i \in Positions(events) : HasBothTimes(events[i])) =>
    /\ call = "_computeWeeklyBalanceScore" =>
         result = _computeWeeklyBalanceScore(OrderedOnly(events))
    /\ (call = "_applyIntelligentWeighting" /\ "totalMinutes" \in DOMAIN result.val) =>
         /\ result.val.totalMinutes = PositiveMinutes(events)
         /\ result.val.weights = AdjustedWeights(OrderedOnly(events))

ScoreOf(name, settings, evs) ==
  CASE name = "_computeDailyLoadScore" -> _computeDailyLoadScore(evs)
    [] name = "_computeBreakComplianceScore" -> _computeBreakComplianceScore(settings, evs)
    [] name = "_computeEveningWorkScore" -> _computeEveningWorkScore(evs)
    [] name = "_computeWeeklyBalanceScore" -> _computeWeeklyBalanceScore(evs)

\* C22: a scorer called with a list in which an appointment lacks its start
\* or its end does not throw; it returns an integer in 0..100, the score of
\* the remaining appointments (100 when none remain).
C22_MissingTimesNeverThrow ==
  (/\ pc = "returned"
   /\ call \in { "_computeDailyLoadScore", "_computeBreakComplianceScore",
                  "_computeEveningWorkScore", "_computeWeeklyBalanceScore" }
   /\ \E i \in Positions(events) : ~HasBothTimes(events[i])) =>
    /\ ~result.threw
    /\ result.val \in 0..100
    /\ result = ScoreOf(call, engine.settings, SelectSeq(events, HasBothTimes))

(***************************************************************************)
(* Levels                                                                  *)
(***************************************************************************)
ClaimedBand(score) ==
  IF score <= 29 THEN "critical"
  ELSE IF score <= 49 THEN "warning"
  ELSE IF score <= 69 THEN "moderate"
  ELSE IF score <= 84 THEN "good"
  ELSE "excellent"

BandRank(level) ==
  CASE level = "critical" -> 0
    [] level = "warning" -> 1
    [] level = "moderate" -> 2
    [] level = "good" -> 3
    [] level = "excellent" -> 4

BandsHolding(score) ==
  { k \in DOMAIN CONFIG.THRESHOLDS.SCORE :
      CONFIG.THRESHOLDS.SCORE[k].min <= score /\ score <= CONFIG.THRESHOLDS.SCORE[k].max }

\* C23: getScoreLevel gives every integer score of 0..100 the one band that
\* holds it (critical 0-29, warning 30-49, moderate 50-69, good 70-84,
\* excellent 85-100), no lower score gets a better level, and the level in a
\* result of computeWeeklyScore or computeDailyScore is the band of the score
\* in that result.
C23_LevelIsBandOfScore ==
  pc = "returned" =>
    /\ call = "getScoreLevel" =>
         /\ ~result.threw
         /\ BandsHolding(arg.value) = {result.val.key}
         /\ toLowerCase(result.val.key) = ClaimedBand(arg.value)
         /\ \A lower \in 0..arg.value :
              BandRank(toLowerCase(getScoreLevel(lower).key)) <= BandRank(toLowerCase(result.val.key))
    /\ (call \in {"computeWeeklyScore", "computeDailyScore"} /\ ~result.threw) =>
         result.val.level = ClaimedBand(result.val.score)

C23_Witness ==
  /\ pc = "returned" /\ call = "getScoreLevel"
  /\ arg.value = 85 /\ result.val.key = "EXCELLENT"

ClaimedDailyIntensity(count) ==
  IF count <= 4 THEN "optimal"
  ELSE IF count <= 6 THEN "good"
  ELSE IF count <= 8 THEN "warning"
  ELSE IF count <= 10 THEN "danger"
  ELSE "critical"

ClaimedWeeklyIntensity(hours) ==
  IF hours <= 25 THEN "optimal"
  ELSE IF hours <= 32 THEN "good"
  ELSE IF hours <= 40 THEN "warning"
  ELSE IF hours <= 50 THEN "danger"
  ELSE "critical"

\* C24: getLoadIntensity gives a daily count optimal up to 4, good up to 6,
\* warning up to 8, danger up to 10 and critical above, and gives weekly
\* hours optimal up to 25, good up to 32, warning up to 40, danger up to 50
\* and critical above.
C24_LoadIntensityTables ==
  (pc = "returned" /\ call = "getLoadIntensity") =>
    /\ ~result.threw
    /\ arg.type = "daily" => result.val = ClaimedDailyIntensity(arg.value)
    /\ arg.type = "weekly" => result.val = ClaimedWeeklyIntensity(arg.value)

(***************************************************************************)
(* Toasts                                                                  *)
(***************************************************************************)
\* C25: whatever the order of show, dismiss, the auto-dismiss timers and the
\* removal timeouts, the toast system holds at most maxToasts (5) toasts.
C25_AtMostFiveToasts == Len(toasts) <= maxToasts

(***************************************************************************)
(* Modals                                                                  *)
(***************************************************************************)
\* C29: once a modal made by confirm has been closed and its element has left
\* the document (no button is left to resolve it), its promise is resolved:
\* with true only if the confirm button was used, with false otherwise.
C29_ClosedConfirmIsResolved ==
  \A id \in 1..Len(modals) :
    (id \notin StackIds(stack) /\ ~modals[id].attached) =>
      /\ modals[id].promise # "pending"
      /\ modals[id].promise = "true" => modals[id].confirmUsed
      /\ ~modals[id].confirmUsed => modals[id].promise = "false"

(***************************************************************************)
(* Storage                                                                 *)
(***************************************************************************)
EventsOf(store) == IF store = NoStore THEN <<>> ELSE store.events
Stored == Persisted(storage, localStorage)

\* What the next getStore() returns, made now or once the cache has expired
\* (setItem does not fail: getStore writes only when there is no item)
NextGetStore(later) ==
  getStore([World(Env(<<>>, "ok", FALSE)) EXCEPT !.now = now + later]).ret.val

\* C27: when saveStore(store) has returned true, the next getStore() returns
\* the store just saved, whether the cache is still alive or not.
C27_GetStoreAfterSave ==
  (call = "saveStore" /\ ~result.threw /\ result.val = TRUE) =>
    \A later \in {0, cacheTTL} : NextGetStore(later) = _mergeWithDefaults(arg.store)

\* C28: saveStore on a manager that uses localStorage, every write failing with
\* QuotaExceededError, returns false after one cleanup and one retry.
C28_SaveStoreGivesUpAfterOneRetry ==
  (call = "saveStore" /\ arg.env /\ ~storage.memoryMode) =>
    /\ ~result.threw
    /\ result.val = FALSE
    /\ result.cleanups = 1

StoredEvents == EventsOf(Stored)
AllOrdered(evs) == \A i \in 1..Len(evs) : IsOrdered(evs[i])
EventOperations == {"addEvent", "updateEvent", "deleteEvent", "hardDeleteEvent", "importFromBackup"}
HeldOrdered == AllOrdered(StoredEvents) /\ AllOrdered(EventsOf(storage.cache))
Refuses(name, a, today) ==
  \/ name = "addEvent" /\ ~validateEvent(a.data, today).valid
  \/ /\ name = "updateEvent"
     /\ ~Missing(a.data, "start") \/ ~Missing(a.data, "end")
     /\ IndexOfId(StoredEvents, a.id) # {}
     /\ ~validateEvent(Spread(StoredEvents[FirstOf(IndexOfId(StoredEvents, a.id))], a.data), today).valid

\* C30: an operation that changes events, made by a manager all of whose
\* events, stored and cached, end after they start, leaves a store all of
\* whose events end after they start; an addEvent or an updateEvent of the
\* times whose event fails the validation returns success false and leaves the
\* stored events as they were.
C30_StoredEventsStayOrdered ==
  [][(calls' = calls + 1 /\ call' \in EventOperations /\ HeldOrdered) =>
       /\ AllOrdered(StoredEvents')
       /\ Refuses(call', arg', MinuteOf(now)) =>
            /\ ~result'.threw
            /\ result'.val.success = FALSE
            /\ StoredEvents' = StoredEvents]_vars

\* The events the next getStore() returns
Served == EventsOf(NextGetStore(0))

SoftDeleted(ev) ==
  /\ ev.status = CONFIG.STATUS.CANCELLED
  /\ ~Missing(ev, "deletedAt")
  /\ ~IsScoredAppointment(ev)

DeleteEventIsSoft(before, after, id, reply) ==
  IF IndexOfId(before, id) = {}
  THEN ~reply.threw /\ reply.val.success = FALSE /\ after = before
  ELSE /\ Len(after) = Len(before)
       /\ \A i \in 1..Len(before) : i # FirstOf(IndexOfId(before, id)) => after[i] = before[i]
       /\ (~reply.threw /\ reply.val.success) => SoftDeleted(after[FirstOf(IndexOfId(before, id))])

\* C26: deleteEvent(id) of an event the store holds keeps the number of events
\* and every other event, and when it succeeds the event is cancelled, carries
\* deletedAt and is not scored; deleteEvent of an id the store does not hold
\* returns success false and leaves the events as they were.
C26_DeleteEventIsSoft ==
  [][(calls' = calls + 1 /\ call' = "deleteEvent") =>
       DeleteEventIsSoft(Served, Served', arg'.id, result')]_vars
====
